---- MODULE Spec2Model ----
(***************************************************************************)
(* Odds board: ingestion of bookmaker quotes, best-price selection and     *)
(* arbitrage detection (src/src/app/*.py), the bookmaker filter            *)
(* (src/utils/filters.py) and the UFC statistics fetcher                   *)
(* (src/scripts/fetch_ufcstats_option_a.py).                               *)
(*                                                                         *)
(* Units.  Decimal odds are integers in hundredths (2.40 is 240), lines    *)
(* are integers in tenths (2.5 is 25), stakes are integers in pence, the   *)
(* bankroll is in pounds and a time is its age in minutes.  The floats of  *)
(* the arbitrage scripts are modelled by exact rationals (reduced          *)
(* fractions [n, d]), round(x, 2) being round-half-even on the exact       *)
(* value; where the exact value lies on the bound of a comparison          *)
(* (sum_implied = 1, roi_pct = MIN_ROI_PCT) the comparison is made in      *)
(* binary64, as are all computations of golf_outrights_value.              *)
(***************************************************************************)
EXTENDS Integers, Sequences, FiniteSets, TLC

VARIABLES
    data,          \* the snapshot: the outcomes of the API JSON, in document order
    pc,            \* "fetch" while the snapshot is read, then the script that ran
    full_df,       \* arb_multi.main: the flattened frame
    arbs_1x2,      \* arb_multi.main: build_1x2_arbs(full_df)
    arbs_totals,   \* arb_multi.main: build_totals_arbs(full_df)
    arbs_spreads,  \* arb_multi.main: build_spreads_arbs(full_df)
    long_df,       \* arb_goals_totals.main: the frame handed to best_pairs
    arbs,          \* arb_goals_totals.main: best_pairs of that frame
    summary,       \* log_goals_best_lines.main: summarize(to_long(json_data))
    checker_df,    \* generate_odds_checker.main: the h2h, totals and spreads frames
    page,          \* generate_odds_checker: the best prices of a fixture page
    all_df,        \* odds_board.main: the rows of fetch_book, concatenated
    board,         \* odds_board.main: best_price_summary(all_df)
    bankroll,      \* the configured BANKROLL, in pounds
    raised,        \* the exception that ended the script, "" when none did
    golf_data,     \* golf_outrights_value: the outcomes of the outrights JSON
    golf_out,      \* compute_value: a row per golfer, before the edge filter
    golf_values,   \* golf_outrights_value.main: compute_value(df)
    uk_pc,         \* filter_uk_books: "input" until it is called, then "returned"
    uk_events,     \* filter_uk_books: the list events, as the caller holds it
    uk_given,      \* filter_uk_books: the list events as it was at the call
    uk_returned,   \* filter_uk_books: the list returned
    sg_pc,         \* safe_get: "idle", "loop", then "returned" or "raised"
    sg_retries,    \* safe_get: the argument retries
    sg_i,          \* safe_get: the loop variable i, 0 before the first pass
    sg_seen,       \* safe_get: what SESSION.get gave, pass by pass
    sg_text,       \* safe_get: the value returned
    ufc_pc,        \* fetch_ufcstats_option_a.main: where the run is
    ufc_cache,     \* main: the dict cache
    ufc_loaded,    \* main: what load_cache returned
    ufc_selected,  \* main: the events of selected_events still to come
    ufc_fights,    \* main: the fighter pages of the event still to come
    ufc_log,       \* main: the calls of safe_get for event and fighter pages
    ufc_file       \* the cache file as this run wrote it

vars == <<data, pc, full_df, arbs_1x2, arbs_totals, arbs_spreads, long_df, arbs,
          summary, checker_df, page, all_df, board, bankroll, raised,
          golf_data, golf_out, golf_values,
          uk_pc, uk_events, uk_given, uk_returned,
          sg_pc, sg_retries, sg_i, sg_seen, sg_text,
          ufc_pc, ufc_cache, ufc_loaded, ufc_selected, ufc_fights, ufc_log, ufc_file>>

\* the state of golf_outrights_value, and that of the other scripts
golf_vars == <<golf_data, golf_out, golf_values>>
\* the state of utils/filters.py
uk_vars == <<uk_pc, uk_events, uk_given, uk_returned>>
\* the state of the utilities and of the scripts outside src/app
\* the state of safe_get of scripts/fetch_ufcstats_option_a.py
sg_vars == <<sg_pc, sg_retries, sg_i, sg_seen, sg_text>>
\* the state of main of scripts/fetch_ufcstats_option_a.py
ufc_vars == <<ufc_pc, ufc_cache, ufc_loaded, ufc_selected, ufc_fights, ufc_log, ufc_file>>
util_vars == <<uk_vars, sg_vars, ufc_vars>>
odds_vars == <<data, full_df, arbs_1x2, arbs_totals, arbs_spreads, long_df, arbs,
               summary, checker_df, page, all_df, board, bankroll, raised>>

(***************************************************************************)
(* Bounds of the model.                                                    *)
(***************************************************************************)
MaxQuotes == 3     \* outcomes in one snapshot
MaxTie == 2        \* tie orders an unstable sort is let to produce

(***************************************************************************)
(* Python values.                                                          *)
(***************************************************************************)
NoTitle == "<None>"          \* b.get("title") is None
NoPoint == -999              \* o.get("point") is None
NoPrice == -1                \* o.get("price") is None
NoTime == -999999            \* b.get("last_update") or game.get("commence_time") is None
KickOff == -60               \* commence_time of a game an hour ahead
BadTime == -999998           \* a time that pd.to_datetime(errors="coerce") makes NaT
NotNumber == -2              \* a price or point that float() rejects, such as "abc"

(***************************************************************************)
(* Exact rationals.                                                        *)
(***************************************************************************)
RECURSIVE GCD(_, _)
GCD(a, b) == IF b = 0 THEN a ELSE GCD(b, a % b)

Abs(x) == IF x < 0 THEN 0 - x ELSE x

Frac(n, d) ==
    LET g == GCD(Abs(n), Abs(d))
    IN  [n |-> n \div g, d |-> d \div g]

FAdd(x, y) ==
    LET g == GCD(x.d, y.d)
    IN  Frac(x.n * (y.d \div g) + y.n * (x.d \div g), x.d * (y.d \div g))

FSub(x, y) == FAdd(x, [n |-> 0 - y.n, d |-> y.d])

FMul(x, y) ==
    LET a == Frac(x.n, y.d)
        b == Frac(y.n, x.d)
    IN  [n |-> a.n * b.n, d |-> a.d * b.d]

FDiv(x, y) == FMul(x, [n |-> y.d, d |-> y.n])

FLess(x, y) == x.n * y.d < y.n * x.d

FLeq(x, y) == x.n * y.d <= y.n * x.d

FInt(k) == [n |-> k, d |-> 1]

\* 1 / odds, odds in hundredths
Inv(odds) == Frac(100, odds)

\* round-half-even of 100 * x, x >= 0
RoundHalfEven(x) ==
    LET q == (100 * x.n) \div x.d
        r == (100 * x.n) % x.d
    IN  IF 2 * r > x.d THEN q + 1
        ELSE IF 2 * r < x.d THEN q
        ELSE IF q % 2 = 0 THEN q ELSE q + 1

\* the value of Python's round(x, 2), in hundredths
Round2(x) ==
    IF x.n < 0 THEN 0 - RoundHalfEven([n |-> 0 - x.n, d |-> x.d])
    ELSE RoundHalfEven(x)

(***************************************************************************)
(* IEEE 754 binary64, the float of golf_outrights_value.py.  A natural     *)
(* number of any size is a sequence of limbs below LimbBase, least         *)
(* significant first and without leading zeros; a double is                *)
(* [s, m, e] of value s * m * 2^e with s the sign (1 or -1) and m of       *)
(* exactly 53 bits, or m = <<>> for zero.  Every operation is the exact    *)
(* result rounded to nearest, ties to even.                                *)
(***************************************************************************)
LimbBase == 32768
LimbBits == 15
Mantissa == 53

RECURSIVE Pow2(_)
Pow2(n) == IF n = 0 THEN 1 ELSE 2 * Pow2(n - 1)

RECURSIVE BNorm(_)
BNorm(a) ==
    IF a = <<>> THEN a
    ELSE IF a[Len(a)] = 0 THEN BNorm(SubSeq(a, 1, Len(a) - 1))
    ELSE a

RECURSIVE BFromInt(_)
BFromInt(n) == IF n = 0 THEN <<>> ELSE <<n % LimbBase>> \o BFromInt(n \div LimbBase)

Limb(a, i) == IF i <= Len(a) THEN a[i] ELSE 0

\* -1, 0 or 1 as a < b, a = b or a > b
BCmp(a, b) ==
    IF Len(a) # Len(b) THEN (IF Len(a) < Len(b) THEN -1 ELSE 1)
    ELSE LET F[i \in 0..Len(a)] ==
                 IF i = 0 THEN 0
                 ELSE IF a[i] < b[i] THEN -1
                 ELSE IF a[i] > b[i] THEN 1
                 ELSE F[i - 1]
         IN  F[Len(a)]

BAdd(a, b) ==
    LET n == IF Len(a) < Len(b) THEN Len(b) ELSE Len(a)
        F[i \in 0..n] ==
            IF i = 0 THEN [c |-> 0, d |-> <<>>]
            ELSE LET prev == F[i - 1]
                     t == Limb(a, i) + Limb(b, i) + prev.c
                 IN  [c |-> t \div LimbBase, d |-> Append(prev.d, t % LimbBase)]
    IN  BNorm(Append(F[n].d, F[n].c))

\* a - b, for a >= b
BSub(a, b) ==
    LET F[i \in 0..Len(a)] ==
            IF i = 0 THEN [c |-> 0, d |-> <<>>]
            ELSE LET prev == F[i - 1]
                     t == a[i] - Limb(b, i) - prev.c
                 IN  IF t < 0 THEN [c |-> 1, d |-> Append(prev.d, t + LimbBase)]
                     ELSE [c |-> 0, d |-> Append(prev.d, t)]
    IN  BNorm(F[Len(a)].d)

\* a * k, for 0 <= k < LimbBase
BMulSmall(a, k) ==
    LET F[i \in 0..Len(a)] ==
            IF i = 0 THEN [c |-> 0, d |-> <<>>]
            ELSE LET prev == F[i - 1]
                     t == a[i] * k + prev.c
                 IN  [c |-> t \div LimbBase, d |-> Append(prev.d, t % LimbBase)]
    IN  BNorm(Append(F[Len(a)].d, F[Len(a)].c))

\* a * LimbBase^n
BShiftLimbs(a, n) == IF a = <<>> THEN a ELSE [i \in 1..n |-> 0] \o a

BMul(a, b) ==
    LET F[i \in 0..Len(b)] ==
            IF i = 0 THEN <<>>
            ELSE BAdd(F[i - 1], BShiftLimbs(BMulSmall(a, b[i]), i - 1))
    IN  F[Len(b)]

\* a * 2^n
BShl(a, n) == BShiftLimbs(BMulSmall(a, Pow2(n % LimbBits)), n \div LimbBits)

RECURSIVE IntBitLen(_)
IntBitLen(n) == IF n = 0 THEN 0 ELSE 1 + IntBitLen(n \div 2)

BBitLen(a) == IF a = <<>> THEN 0 ELSE LimbBits * (Len(a) - 1) + IntBitLen(a[Len(a)])

\* bit i of a, bit 0 the least significant
BBit(a, i) == (Limb(a, i \div LimbBits + 1) \div Pow2(i % LimbBits)) % 2

\* a divided by k, for 0 < k < LimbBase: the quotient, from the top limb down
BDivSmall(a, k) ==
    LET F[i \in 0..Len(a)] ==
            IF i = 0 THEN [c |-> 0, d |-> <<>>]
            ELSE LET prev == F[i - 1]
                     t == prev.c * LimbBase + a[Len(a) - i + 1]
                 IN  [c |-> t % k, d |-> <<t \div k>> \o prev.d]
    IN  BNorm(F[Len(a)].d)

\* the two leading limbs of r, counted from limb n of r
TopAt(r, n) == Limb(r, n + 1) * LimbBase + Limb(r, n)

\* q + (r divided by d) and the remainder, for r < d * LimbBase and the top
\* limb of d at least LimbBase / 2: an estimate of the digit from the leading
\* limbs that is never too large, taken off until r < d
RECURSIVE DivDigit(_, _, _)
DivDigit(q, r, d) ==
    IF BCmp(r, d) < 0 THEN [q |-> q, r |-> r]
    ELSE LET est == TopAt(r, Len(d)) \div (d[Len(d)] + 1)
             qh == IF est = 0 THEN 1 ELSE est
         IN  DivDigit(q + qh, BSub(r, BMulSmall(d, qh)), d)

\* the digit dig put on top of the quotient q, without leading zeros
DivPut(q, dig) ==
    [q |-> IF dig.q = 0 /\ q = <<>> THEN <<>> ELSE <<dig.q>> \o q, r |-> dig.r]

\* one step of the long division by d: the next limb of the dividend is put
\* under the remainder and the digit taken
DivStep(prev, limb, d) ==
    IF prev.q = <<>> /\ prev.r = <<>> /\ limb = 0 THEN prev
    ELSE DivPut(prev.q, DivDigit(0, BNorm(<<limb>> \o prev.r), d))

\* quotient and remainder of n by d, the top limb of d at least LimbBase / 2:
\* long division, a limb of n at a time from the top
BDivScaled(n, d) ==
    LET G[j \in 0..Len(n)] ==
            IF j = 0 THEN [q |-> <<>>, r |-> <<>>]
            ELSE DivStep(G[j - 1], n[Len(n) - j + 1], d)
    IN  G[Len(n)]

\* the quotient, and the remainder scaled back by sc bits
DivUnscale(g, sc) == [q |-> g.q, r |-> BDivSmall(g.r, Pow2(sc))]

\* quotient and remainder of n by d, d other than zero: n and d are scaled so
\* that the top limb of d is at least LimbBase / 2
BDivMod(n, d) ==
    LET sc == LimbBits - IntBitLen(d[Len(d)])
    IN  DivUnscale(BDivScaled(BShl(n, sc), BShl(d, sc)), sc)

DZero == [s |-> 1, m |-> <<>>, e |-> 0]

\* [s, m, e] for a significand m of Mantissa bits, or of one bit more after
\* a carry out of the rounding
Carry(s, m, e) ==
    IF BBitLen(m) = Mantissa + 1
    THEN [s |-> s, m |-> BDivSmall(m, 2), e |-> e + 1]
    ELSE [s |-> s, m |-> m, e |-> e]

\* q of Mantissa bits rounded by the part cut off, half being that part
\* against one half: -1 below, 0 at, 1 above; a tie goes to the even q
RoundCut(s, q, half, e) ==
    IF half > 0 \/ (half = 0 /\ BBit(q, 0) = 1)
    THEN Carry(s, BAdd(q, <<1>>), e)
    ELSE Carry(s, q, e)

\* the quotient qr.q, of Mantissa bits or one more, and remainder qr.r of a
\* division by d, rounded to Mantissa bits
RoundQuot(s, qr, d, e) ==
    IF BBitLen(qr.q) = Mantissa + 1
    THEN RoundCut(s, BDivSmall(qr.q, 2),
                  IF BBit(qr.q, 0) = 0 THEN -1 ELSE IF qr.r = <<>> THEN 0 ELSE 1,
                  e + 1)
    ELSE RoundCut(s, qr.q, BCmp(BAdd(qr.r, qr.r), d), e)

\* the quotient of n by d, of Mantissa bits or one more, rounded
RoundScaled(s, n, d, e) == RoundQuot(s, BDivMod(n, d), d, e)

\* n / d with n or d shifted by sh bits, so that the quotient has Mantissa
\* bits or one more
RoundShift(s, n, d, e, sh) ==
    RoundScaled(s, IF sh >= 0 THEN BShl(n, sh) ELSE n,
                IF sh >= 0 THEN d ELSE BShl(d, 0 - sh), e - sh)

\* the double nearest to s * (n / d) * 2^e, ties to even
RoundToDouble(s, n, d, e) ==
    IF n = <<>> THEN DZero
    ELSE RoundShift(s, n, d, e, Mantissa - (BBitLen(n) - BBitLen(d)))

\* float(n / d) for a decimal literal n / d of the JSON
DFromRatio(n, d) ==
    RoundToDouble(IF n < 0 THEN -1 ELSE 1, BFromInt(IF n < 0 THEN 0 - n ELSE n),
                  BFromInt(d), 0)

\* a / b, for b other than zero
DDiv(a, b) ==
    IF a.m = <<>> \/ b.m = <<>> THEN DZero
    ELSE RoundToDouble(a.s * b.s, a.m, b.m, a.e - b.e)

DMul(a, b) ==
    IF a.m = <<>> \/ b.m = <<>> THEN DZero
    ELSE RoundToDouble(a.s * b.s, BMul(a.m, b.m), <<1>>, a.e + b.e)

\* the sum of a and b as sign and magnitude, x and y being their significands
\* at a common exponent
AlignedSum(a, b, x, y) ==
    IF a.s = b.s THEN [s |-> a.s, m |-> BAdd(x, y)]
    ELSE IF BCmp(x, y) >= 0 THEN [s |-> a.s, m |-> BSub(x, y)]
    ELSE [s |-> b.s, m |-> BSub(y, x)]

RoundSum(sum, e) == RoundToDouble(sum.s, sum.m, <<1>>, e)

\* a + b, neither zero, e being the smaller of their exponents
DAddAt(a, b, e) ==
    RoundSum(AlignedSum(a, b, BShl(a.m, a.e - e), BShl(b.m, b.e - e)), e)

DAdd(a, b) ==
    IF a.m = <<>> THEN b
    ELSE IF b.m = <<>> THEN a
    ELSE DAddAt(a, b, IF a.e < b.e THEN a.e ELSE b.e)

DNeg(a) == [s |-> 0 - a.s, m |-> a.m, e |-> a.e]

DSub(a, b) == DAdd(a, DNeg(b))

\* |a| < |b|
DMagLess(a, b) ==
    IF b.m = <<>> THEN FALSE
    ELSE IF a.m = <<>> THEN TRUE
    ELSE a.e < b.e \/ (a.e = b.e /\ BCmp(a.m, b.m) < 0)

DSign(a) == IF a.m = <<>> THEN 0 ELSE a.s

\* a < b
DLess(a, b) ==
    \/ DSign(a) < DSign(b)
    \/ DSign(a) = 1 /\ DSign(b) = 1 /\ DMagLess(a, b)
    \/ DSign(a) = -1 /\ DSign(b) = -1 /\ DMagLess(b, a)

One == DFromRatio(1, 1)
Hundred == DFromRatio(100, 1)

(***************************************************************************)
(* Sequences as data frames.                                               *)
(***************************************************************************)
SelectRows(df, Keep(_)) ==
    LET F[i \in 0..Len(df)] ==
            IF i = 0 THEN <<>>
            ELSE IF Keep(df[i]) THEN Append(F[i - 1], df[i]) ELSE F[i - 1]
    IN  F[Len(df)]

MapRows(df, Row(_)) ==
    LET F[i \in 0..Len(df)] ==
            IF i = 0 THEN <<>> ELSE Append(F[i - 1], Row(df[i]))
    IN  F[Len(df)]

Range(s) == {s[i] : i \in 1..Len(s)}

\* the elements of S in ascending order of Key (keys distinct)
SetToSeq(S, Key(_)) ==
    LET F[T \in SUBSET S] ==
            IF T = {} THEN <<>>
            ELSE LET m == CHOOSE x \in T : \A y \in T : Key(x) <= Key(y)
                 IN  <<m>> \o F[T \ {m}]
    IN  F[S]

\* r put into the descending sequence s after every row whose key is >= its own
InsertDesc(s, r, Key(_)) ==
    LET n == Cardinality({j \in 1..Len(s) : Key(s[j]) >= Key(r)})
    IN  SubSeq(s, 1, n) \o <<r>> \o SubSeq(s, n + 1, Len(s))

StableDesc(df, Key(_)) ==
    LET F[i \in 0..Len(df)] ==
            IF i = 0 THEN <<>> ELSE InsertDesc(F[i - 1], df[i], Key)
    IN  F[Len(df)]

\* every maximal run of equal keys rotated left by k places
RotateRuns(s, Key(_), k) ==
    LET RunEnd(i) == CHOOSE n \in i..Len(s) :
                        /\ \A j \in i..n : Key(s[j]) = Key(s[i])
                        /\ n < Len(s) => Key(s[n + 1]) # Key(s[i])
        G[i \in 1..(Len(s) + 1)] ==
            IF i > Len(s) THEN <<>>
            ELSE LET e  == RunEnd(i)
                     sh == k % (e - i + 1)
                 IN  SubSeq(s, i + sh, e) \o SubSeq(s, i, i + sh - 1) \o G[e + 1]
    IN  G[1]

\* df.sort_values([col], ascending=False): one key, kind="quicksort", so the
\* order of rows with equal keys is not promised; k = 0 is the stable order
SortValuesDesc(df, Key(_), k) == RotateRuns(StableDesc(df, Key), Key, k)

\* groupby(...).first() on the rows of one group: per column, the first value
\* that is not null
GroupFirst(rows) ==
    [odds |-> rows[1].odds,
     book |-> LET ok == {i \in 1..Len(rows) : rows[i].book # NoTitle}
              IN  IF ok = {} THEN NoTitle
                  ELSE rows[CHOOSE i \in ok : \A j \in ok : i <= j].book]

(***************************************************************************)
(* The snapshot.  An outcome o of the JSON carries the game, bookmaker and *)
(* market it is nested in: [ev, book, mkey, name, point, price].           *)
(***************************************************************************)
Games ==
    [e \in 1..5 |->
        CASE e = 1 -> [home |-> "Arsenal", away |-> "Chelsea"]
          [] e = 2 -> [home |-> "Leeds", away |-> "Everton"]
          [] e = 3 -> [home |-> "", away |-> "Chelsea"]
          [] e = 4 -> [home |-> "Draw", away |-> "Chelsea"]
          [] e = 5 -> [home |-> "Arsenal", away |-> "Arsenal"]]

\* str.strip()
Strip(s) == IF s = " Draw " THEN "Draw" ELSE s

\* str.lower()
Lower(s) ==
    CASE s = "Arsenal" -> "arsenal"
      [] s = "Chelsea" -> "chelsea"
      [] s = "Leeds" -> "leeds"
      [] s = "Everton" -> "everton"
      [] s = "Draw" -> "draw"
      [] s = "Tie" -> "tie"
      [] s = "Over" -> "over"
      [] s = "Under" -> "under"
      [] s = "OVER" -> "over"
      [] s = "Over 2.5" -> "over 2.5"
      [] s = "Goals" -> "goals"
      [] OTHER -> s

\* str.title()
Title(s) ==
    CASE s = "over" -> "Over"
      [] s = "OVER" -> "Over"
      [] s = "under" -> "Under"
      [] s = "draw" -> "Draw"
      [] s = "arsenal" -> "Arsenal"
      [] s = "chelsea" -> "Chelsea"
      [] OTHER -> s

\* sub in s, for the substrings the classifiers look for
Contains(s, sub) ==
    \/ sub = "over" /\ s \in {"over", "over 2.5"}
    \/ sub = "under" /\ s = "under"

(***************************************************************************)
(* arb_multi.py                                                            *)
(***************************************************************************)
BANKROLL == 100
MIN_ROI_PCT == 1
POPULAR_SPREAD_LINES == {-10, 0, 10}
ODDS_MIN == 101
ODDS_MAX == 100000

\* an h2h label that is neither team taken for the draw
flatten_side_DefaultDraw(o) ==
    LET name == Strip(o.name)
        nlow == Lower(name)
        home == Games[o.ev].home
        away == Games[o.ev].away
    IN  CASE o.mkey = "h2h" ->
                 IF name = home \/ Lower(home) = nlow THEN "Home"
                 ELSE IF name = away \/ Lower(away) = nlow THEN "Away"
                 ELSE "Draw"
          [] o.mkey = "totals" ->
                 IF Contains(nlow, "over") THEN "Over"
                 ELSE IF Contains(nlow, "under") THEN "Under"
                 ELSE ""
          [] o.mkey = "spreads" ->
                 IF name = home \/ Lower(home) = nlow THEN "Home"
                 ELSE IF name = away \/ Lower(away) = nlow THEN "Away"
                 ELSE ""
          [] OTHER -> ""

\* the side flatten_all gives an outcome, "" when it drops the outcome
flatten_side(o) ==
    LET name == Strip(o.name)
        nlow == Lower(name)
        home == Games[o.ev].home
        away == Games[o.ev].away
    IN  CASE o.mkey = "h2h" ->
                 IF nlow = "draw" THEN "Draw"
                 ELSE IF name = home \/ Lower(home) = nlow THEN "Home"
                 ELSE IF name = away \/ Lower(away) = nlow THEN "Away"
                 ELSE ""
          [] o.mkey = "totals" ->
                 IF Contains(nlow, "over") THEN "Over"
                 ELSE IF Contains(nlow, "under") THEN "Under"
                 ELSE ""
          [] o.mkey = "spreads" ->
                 IF name = home \/ Lower(home) = nlow THEN "Home"
                 ELSE IF name = away \/ Lower(away) = nlow THEN "Away"
                 ELSE ""
          [] OTHER -> ""

\* flatten_all without the test of the popular lines
flatten_keeps_AnyLine(o) ==
    /\ Games[o.ev].home # "" /\ Games[o.ev].away # ""
    /\ o.mkey \in {"h2h", "totals", "spreads"}
    /\ o.price # NoPrice /\ o.price # NotNumber
    /\ ODDS_MIN <= o.price /\ o.price <= ODDS_MAX
    /\ flatten_side(o) # ""
    /\ o.mkey \in {"totals", "spreads"} => o.point # NoPoint /\ o.point # NotNumber

\* whether flatten_all appends a row for the outcome
flatten_keeps(o) ==
    /\ Games[o.ev].home # "" /\ Games[o.ev].away # ""
    /\ o.mkey \in {"h2h", "totals", "spreads"}
    /\ o.price # NoPrice /\ o.price # NotNumber
    /\ ODDS_MIN <= o.price /\ o.price <= ODDS_MAX
    /\ flatten_side(o) # ""
    /\ o.mkey \in {"totals", "spreads"} => o.point # NoPoint /\ o.point # NotNumber
    /\ o.mkey = "spreads" => o.point \in POPULAR_SPREAD_LINES

flatten_row(o) ==
    [event_id |-> o.ev,
     book     |-> IF o.book = NoTitle THEN "" ELSE o.book,
     market   |-> o.mkey,
     side     |-> flatten_side(o),
     line     |-> IF o.mkey = "h2h" THEN NoPoint ELSE o.point,
     odds     |-> o.price]

flatten_all(json) == MapRows(SelectRows(json, flatten_keeps), flatten_row)

SidesOf(sub) == {sub[i].side : i \in 1..Len(sub)}

\* the sort written ascending
RowOdds_Ascending(r) == 0 - r.odds

RowOdds(r) == r.odds

\* sub.sort_values(["odds"], ascending=False).groupby("side").first()
best_by_side(sub, k) ==
    LET sorted == SortValuesDesc(sub, RowOdds, k)
    IN  [s \in SidesOf(sub) |->
            LET IsSide(r) == r.side = s
            IN  GroupFirst(SelectRows(sorted, IsSide))]

\* the test written as: no side outside the required ones
IsComplete_NoStranger(sides, required) == sides # {} /\ sides \subseteq required

\* sides != {...}: continue
IsComplete(sides, required) == sides = required

\* the draw left out of the sum
InvSum_DrawIgnored(best, sides) ==
    LET F[T \in SUBSET sides] ==
            IF T = {} THEN FInt(0)
            ELSE LET s == CHOOSE u \in T : TRUE
                 IN  FAdd(IF s = "Draw" THEN FInt(0) ELSE Inv(best[s].odds), F[T \ {s}])
    IN  F[sides]

\* (1 / best.loc[s1, "odds"]) + (1 / best.loc[s2, "odds"]) + ...
InvSum(best, sides) ==
    LET F[T \in SUBSET sides] ==
            IF T = {} THEN FInt(0)
            ELSE LET s == CHOOSE u \in T : TRUE
                 IN  FAdd(Inv(best[s].odds), F[T \ {s}])
    IN  F[sides]

\* the order in which the code adds the inverses of the sides
SideOrder == <<"Home", "Draw", "Away", "Over", "Under">>

SidesInOrder(sides) == SelectSeq(SideOrder, LAMBDA s : s \in sides)

\* inv_sum as the code holds it: the binary64 sum, left to right, of the
\* binary64 quotients 1 / odds
RECURSIVE float_inv_sum(_, _, _)
float_inv_sum(best, order, n) ==
    IF n = 0 THEN DZero
    ELSE DAdd(float_inv_sum(best, order, n - 1),
              DDiv(One, DFromRatio(best[order[n]].odds, 100)))

\* roi_pct as the code holds it, (1 - inv_sum) * 100 in binary64
float_roi_pct(best, sides) ==
    DMul(DSub(One, float_inv_sum(best, SidesInOrder(sides), Cardinality(sides))),
         Hundred)

\* the test written inv_sum > 1
IsArb_NotAbove(best, sides) == FLeq(InvSum(best, sides), FInt(1))

\* not (inv_sum >= 1).  With prices in hundredths up to 1000.00 an exact sum
\* other than 1 is further from 1 than the rounding of the binary64 sum
\* reaches, so that only an exact sum of 1 is decided by the rounding
IsArb(best, sides) ==
    IF InvSum(best, sides) = FInt(1)
    THEN DLess(float_inv_sum(best, SidesInOrder(sides), Cardinality(sides)), One)
    ELSE FLess(InvSum(best, sides), FInt(1))

\* the return as a fraction, the factor 100 left out
RoiPct_Fraction(inv_sum) == FSub(FInt(1), inv_sum)

\* the return on the amount staked, (1 / inv_sum - 1) * 100
RoiPct_OnStake(inv_sum) == FMul(FSub(FDiv(FInt(1), inv_sum), FInt(1)), FInt(100))

\* (1 - inv_sum) * 100
RoiPct(inv_sum) == FMul(FSub(FInt(1), inv_sum), FInt(100))

\* not (roi_pct < MIN_ROI_PCT); only an exact roi_pct of MIN_ROI_PCT is
\* decided by the rounding of the binary64 roi_pct
PassesMinRoi(best, sides) ==
    IF RoiPct(InvSum(best, sides)) = FInt(MIN_ROI_PCT)
    THEN ~DLess(float_roi_pct(best, sides), DFromRatio(MIN_ROI_PCT, 1))
    ELSE ~FLess(RoiPct(InvSum(best, sides)), FInt(MIN_ROI_PCT))

\* the division by inv_sum left out
Stake_NotNormalised(B, odds, inv_sum) == Frac(B * 100, odds)

\* the stake of the other side of a two-way market
Stake_Swapped(B, odds, inv_sum) ==
    FSub(FInt(B), FDiv(Frac(B * 100, odds), inv_sum))

\* (B / odds) / inv_sum, in pounds
Stake(B, odds, inv_sum) == FDiv(Frac(B * 100, odds), inv_sum)

\* round(stake, 2), in pence
RoundStake(stake) == Round2(stake)

\* the line left out of the group columns
GroupKey_NoLine(r, byLine) == <<r.event_id, NoPoint>>

\* the event left out of the group columns
GroupKey_NoEvent(r, byLine) == <<0, IF byLine THEN r.line ELSE NoPoint>>

GroupKey(r, byLine) == <<r.event_id, IF byLine THEN r.line ELSE NoPoint>>

KeyOrder(key) == key[1] * 100000 + key[2]

RoiOf(opp) == opp.roi_pct

\* the body of build_1x2_arbs, build_totals_arbs and build_spreads_arbs; a
\* reported group holds every required side, so that sides is required
BuildArbs(df, mkey, required, byLine, k) ==
    LET IsMarket(r) == r.market = mkey
        mdf  == SelectRows(df, IsMarket)
        keys == SetToSeq({GroupKey(mdf[i], byLine) : i \in 1..Len(mdf)}, KeyOrder)
        Sub(key) == LET InGroup(r) == GroupKey(r, byLine) = key
                    IN  SelectRows(mdf, InGroup)
        Reported(key) ==
            /\ IsComplete(SidesOf(Sub(key)), required)
            /\ LET best == best_by_side(Sub(key), k)
               IN  IsArb(best, required \cap DOMAIN best)
                   /\ PassesMinRoi(best, required \cap DOMAIN best)
        OutRow(key) ==
            LET best    == best_by_side(Sub(key), k)
                sides   == required \cap DOMAIN best
                inv_sum == InvSum(best, sides)
            IN  [event_id |-> key[1],
                 line     |-> key[2],
                 odds     |-> [s \in sides |-> best[s].odds],
                 book     |-> [s \in sides |-> best[s].book],
                 roi_pct  |-> Round2(RoiPct(inv_sum)),
                 stake    |-> [s \in sides |->
                                  RoundStake(Stake(bankroll, best[s].odds, inv_sum))]]
    IN  SortValuesDesc(MapRows(SelectRows(keys, Reported), OutRow), RoiOf, k)

build_1x2_arbs(df, k) == BuildArbs(df, "h2h", {"Home", "Draw", "Away"}, FALSE, k)

build_totals_arbs(df, k) == BuildArbs(df, "totals", {"Over", "Under"}, TRUE, k)

build_spreads_arbs(df, k) == BuildArbs(df, "spreads", {"Home", "Away"}, TRUE, k)

(***************************************************************************)
(* arb_goals_totals.py                                                     *)
(***************************************************************************)
STALE_MINUTES == 240

BOOK_PRIORITY ==
    <<"PaddyPower", "Betfair", "Betfair Sportsbook", "William Hill", "Ladbrokes",
      "SkyBet", "Unibet", "BetVictor", "BoyleSports", "Casumo">>

\* BOOK_PRIORITY.index(b) if b in BOOK_PRIORITY else len(BOOK_PRIORITY)
book_order(b) ==
    IF \E i \in 1..Len(BOOK_PRIORITY) : BOOK_PRIORITY[i] = b
    THEN (CHOOSE i \in 1..Len(BOOK_PRIORITY) : BOOK_PRIORITY[i] = b) - 1
    ELSE Len(BOOK_PRIORITY)

json_to_long_keeps(o) ==
    /\ o.mkey = "totals"
    /\ Title(Strip(o.name)) \in {"Over", "Under"}
    /\ o.price # NoPrice
    /\ o.point # NoPoint

\* float(line), float(price) of a row that is kept raise ValueError
json_to_long_raises(o) ==
    json_to_long_keeps(o) /\ (o.price = NotNumber \/ o.point = NotNumber)

json_to_long_row(o) ==
    [event_id    |-> o.ev,
     book        |-> o.book,
     line        |-> o.point,
     side        |-> Title(Strip(o.name)),
     odds        |-> o.price,
     last_update |-> IF o.last = NoTime THEN o.commence ELSE o.last]

json_to_long(df_json) == MapRows(SelectRows(df_json, json_to_long_keeps), json_to_long_row)

\* no cutoff at all
drop_stale_KeepAll(rows) == rows

\* main: when any row carries a time, df[ts.isna() | (ts >= cutoff)] with
\* ts the times parsed with errors="coerce"; a time is its age in minutes,
\* negative when it lies ahead
drop_stale(rows) ==
    LET Fresh(r) == r.last_update \in {NoTime, BadTime}
                        \/ r.last_update <= STALE_MINUTES
    IN  IF \E i \in 1..Len(rows) : rows[i].last_update # NoTime
        THEN SelectRows(rows, Fresh) ELSE rows

\* main: (odds >= 1.01) & (odds <= 1000)
price_sanity(rows) ==
    LET Sane(r) == r.odds >= 101 /\ r.odds <= 100000
    IN  SelectRows(rows, Sane)

\* sort_values(["odds", "book_order"], ascending=[False, True]): two keys, a
\* stable lexsort
OddsThenBook(r) == r.odds * 100 - book_order(r.book)

\* df[df["side"] == side].sort_values(...).groupby([event, ..., line]).first()
best_of_side(rows, side) ==
    LET IsSide(r) == r.side = side
        sorted == StableDesc(SelectRows(rows, IsSide), OddsThenBook)
        keys == {GroupKey(sorted[i], TRUE) : i \in 1..Len(sorted)}
    IN  [key \in keys |->
            LET InGroup(r) == GroupKey(r, TRUE) = key
            IN  GroupFirst(SelectRows(sorted, InGroup))]

\* pd.merge(over, under, on=[event, ..., line], how="inner"): the keys of both
merge_inner(over, under) == (DOMAIN over) \cap (DOMAIN under)

best_pairs(rows, k) ==
    LET over  == best_of_side(rows, "Over")
        under == best_of_side(rows, "Under")
        keys  == SetToSeq(merge_inner(over, under), KeyOrder)
        OutRow(key) ==
            LET best    == [s \in {"Over", "Under"} |->
                               IF s = "Over" THEN over[key] ELSE under[key]]
                sum_imp == InvSum(best, {"Over", "Under"})
            IN  [event_id |-> key[1],
                 line     |-> key[2],
                 odds     |-> [s \in {"Over", "Under"} |-> best[s].odds],
                 book     |-> [s \in {"Over", "Under"} |-> best[s].book],
                 is_arb   |-> IsArb(best, {"Over", "Under"}),
                 roi_pct  |-> Round2(RoiPct(sum_imp)),
                 stake    |-> [s \in {"Over", "Under"} |->
                                  RoundStake(Stake(bankroll, best[s].odds, sum_imp))]]
        IsArbRow(r) == r.is_arb
    IN  SortValuesDesc(SelectRows(MapRows(keys, OutRow), IsArbRow), RoiOf, k)

(***************************************************************************)
(* log_goals_best_lines.py                                                 *)
(***************************************************************************)
\* to_long: json_to_long, then the price filter
to_long(json_data) == price_sanity(json_to_long(json_data))

\* pack_all: the quotes of one side of a group, best first
pack_all(rows, key, side) ==
    LET Mine(r) == GroupKey(r, TRUE) = key /\ r.side = side
        g == StableDesc(SelectRows(rows, Mine), OddsThenBook)
    IN  [i \in 1..Len(g) |-> [book |-> g[i].book, odds |-> g[i].odds]]

MarginOf(r) == 0 - r.margin_pct

summarize(rows) ==
    LET over_best  == best_of_side(rows, "Over")
        under_best == best_of_side(rows, "Under")
        base == SetToSeq(merge_inner(over_best, under_best), KeyOrder)
        OutRow(key) ==
            LET best == [s \in {"Over", "Under"} |->
                            IF s = "Over" THEN over_best[key] ELSE under_best[key]]
                sum_implied == InvSum(best, {"Over", "Under"})
            IN  [event_id   |-> key[1],
                 line       |-> key[2],
                 odds       |-> [s \in {"Over", "Under"} |-> best[s].odds],
                 book       |-> [s \in {"Over", "Under"} |-> best[s].book],
                 all        |-> [s \in {"Over", "Under"} |-> pack_all(rows, key, s)],
                 margin_pct |-> Round2(FMul(FSub(sum_implied, FInt(1)), FInt(100))),
                 is_arb     |-> IsArb(best, {"Over", "Under"})]
    IN  StableDesc(MapRows(base, OutRow), MarginOf)

(***************************************************************************)
(* generate_odds_checker.py                                                *)
(***************************************************************************)
tidy_book(name) ==
    IF name = NoTitle \/ name = "" THEN "Unknown"
    ELSE IF name = "Sky Bet" THEN "SkyBet"
    ELSE IF name = "Betfair" THEN "Betfair Sportsbook"
    ELSE IF name = "Paddy Power" THEN "PaddyPower"
    ELSE name

df_h2h_side(o, sport) ==
    LET name_l == Lower(Strip(o.name))
    IN  IF name_l = Lower(Games[o.ev].home) THEN "Home"
        ELSE IF name_l = Lower(Games[o.ev].away) THEN "Away"
        ELSE IF sport = "soccer" /\ name_l = "draw" THEN "Draw"
        ELSE ""

df_row(o, side) ==
    [event_id |-> o.ev,
     book     |-> tidy_book(o.book),
     market   |-> o.mkey,
     side     |-> side,
     line     |-> IF o.mkey = "h2h" THEN NoPoint ELSE o.point,
     odds     |-> o.price]

\* odds=float(price) of a row that is kept raises ValueError
df_h2h_raises(o, sport) ==
    /\ o.mkey = "h2h" /\ o.price # NoPrice /\ df_h2h_side(o, sport) # ""
    /\ o.price = NotNumber

df_h2h(json, sport) ==
    LET Keeps(o) == o.mkey = "h2h" /\ o.price # NoPrice /\ df_h2h_side(o, sport) # ""
        Row(o) == df_row(o, df_h2h_side(o, sport))
    IN  price_sanity(MapRows(SelectRows(json, Keeps), Row))

df_totals(json) ==
    LET Keeps(o) == /\ o.mkey = "totals"
                    /\ Title(o.name) \in {"Over", "Under"}
                    /\ o.point # NoPoint
                    /\ o.price # NoPrice
                    /\ o.point # NotNumber /\ o.price # NotNumber
        Row(o) == df_row(o, Title(o.name))
    IN  price_sanity(MapRows(SelectRows(json, Keeps), Row))

POPULAR_SPREAD_LINES_BY_SPORT(sport) ==
    IF sport = "soccer" THEN {-10, 0, 10}
    ELSE IF sport = "nfl" THEN {-75, -35, 0, 35, 75}
    ELSE {}

df_spreads_side(o) ==
    LET name_l == Lower(Strip(o.name))
        home   == Games[o.ev].home
        away   == Games[o.ev].away
    IN  IF home # "" /\ name_l = Lower(home) THEN "Home"
        ELSE IF away # "" /\ name_l = Lower(away) THEN "Away"
        ELSE ""

df_spreads(json, sport) ==
    LET allowed_lines == POPULAR_SPREAD_LINES_BY_SPORT(sport)
        Keeps(o) == /\ o.mkey = "spreads"
                    /\ o.point # NoPoint
                    /\ o.price # NoPrice
                    /\ o.point # NotNumber /\ o.price # NotNumber
                    /\ allowed_lines # {} => o.point \in allowed_lines
                    /\ df_spreads_side(o) # ""
        Row(o) == df_row(o, df_spreads_side(o))
    IN  price_sanity(MapRows(SelectRows(json, Keeps), Row))

\* the (book, odds) chips of one side of a frame, best first, and the price
\* shown as best (NoPrice: "No prices")
SideChips(sub, side, k) ==
    LET IsSide(r) == r.side = side
        Chip(r)   == [book |-> r.book, odds |-> r.odds]
        chips     == MapRows(SelectRows(SortValuesDesc(sub, RowOdds, k), IsSide), Chip)
    IN  [all |-> chips, best |-> IF chips = <<>> THEN NoPrice ELSE chips[1].odds]

\* one section per line: for line, sub in frame.groupby("line")
LineSections(frame, sides, k) ==
    [line \in {frame[i].line : i \in 1..Len(frame)} |->
        LET OnLine(r) == r.line = line
        IN  [s \in sides |-> SideChips(SelectRows(frame, OnLine), s, k)]]

render_fixture_page(h2h_df, totals_df, spreads_df, sport, k) ==
    LET sides == IF sport = "nfl" THEN {"Home", "Away"} ELSE {"Home", "Draw", "Away"}
    IN  [h2h     |-> [s \in {u \in sides : \E i \in 1..Len(h2h_df) : h2h_df[i].side = u} |->
                         LET IsSide(r) == r.side = s
                             sub == SortValuesDesc(SelectRows(h2h_df, IsSide), RowOdds, k)
                         IN  [odds |-> sub[1].odds, book |-> sub[1].book]],
         totals  |-> LineSections(totals_df, {"Over", "Under"}, k),
         spreads |-> LineSections(spreads_df, {"Home", "Away"}, k)]

(***************************************************************************)
(* odds_board.py                                                           *)
(***************************************************************************)
\* the display names of BOOKS, in the order main fetches them
BOOKS ==
    <<"Sky Bet", "Ladbrokes", "William Hill", "Betfair", "Unibet", "BetVictor",
      "BoyleSports", "Casumo">>

EventOrder(r) == 0 - r.event

\* the rows of one bookmaker's response, sorted by event (the further sort keys,
\* bookmaker and outcome, leave the order within an (event, outcome) as it is)
\* float(price) of a row that is kept raises ValueError
fetch_book_raises(o) ==
    /\ o.book \in Range(BOOKS) /\ o.mkey = "h2h" /\ o.name # ""
    /\ o.price = NotNumber

fetch_book(json, book_name) ==
    LET Keeps(o) == /\ o.book = book_name
                    /\ o.mkey = "h2h"
                    /\ o.name # ""
                    /\ o.price # NoPrice /\ o.price # 0
        Row(o) == [event |-> o.ev, outcome |-> o.name, book |-> book_name,
                   odds |-> o.price]
    IN  StableDesc(MapRows(SelectRows(json, Keeps), Row), EventOrder)

\* main: pd.concat(frames, ignore_index=True)
all_frames(json) ==
    LET F[i \in 0..Len(BOOKS)] ==
            IF i = 0 THEN <<>> ELSE F[i - 1] \o fetch_book(json, BOOKS[i])
    IN  F[Len(BOOKS)]

\* g["odds_decimal"].idxmax(): the first row holding the largest price
idxmax(g) ==
    CHOOSE i \in 1..Len(g) :
        /\ \A j \in 1..Len(g) : g[j].odds <= g[i].odds
        /\ \A j \in 1..(i - 1) : g[j].odds < g[i].odds

best_price_summary(frame) ==
    [event \in {frame[i].event : i \in 1..Len(frame)} |->
        [label \in {"Home", "Draw", "Away"} |->
            LET logical == CASE label = "Home" -> Games[event].home
                             [] label = "Draw" -> "Draw"
                             [] label = "Away" -> Games[event].away
                Mine(r) == r.event = event /\ r.outcome = logical
                g == SelectRows(frame, Mine)
            IN  IF g = <<>> THEN [odds |-> NoPrice, book |-> NoTitle]
                ELSE [odds |-> g[idxmax(g)].odds, book |-> g[idxmax(g)].book]]]

(***************************************************************************)
(* golf_outrights_value.py                                                 *)
(***************************************************************************)
MIN_EDGE_PCT == DFromRatio(2, 1)
MAX_ROWS == 200

GOLF_BOOK_PRIORITY ==
    <<"Betfair", "Betfair Sportsbook", "PaddyPower", "William Hill", "Ladbrokes",
      "Unibet", "SkyBet", "BetVictor", "BoyleSports", "LeoVegas">>

\* BOOK_PRIORITY.index(b) if b in BOOK_PRIORITY else len(BOOK_PRIORITY)
golf_book_order(b) ==
    IF \E i \in 1..Len(GOLF_BOOK_PRIORITY) : GOLF_BOOK_PRIORITY[i] = b
    THEN (CHOOSE i \in 1..Len(GOLF_BOOK_PRIORITY) : GOLF_BOOK_PRIORITY[i] = b) - 1
    ELSE Len(GOLF_BOOK_PRIORITY)

\* json_to_long: an outcome g = [ev, book, name, price] of the outrights market
\* gives a row unless its name or price is missing, float(price) fails or
\* the price is <= 1.0 or > 1001
golf_keeps(g) ==
    /\ Strip(g.name) # ""
    /\ g.price # NoPrice /\ g.price # NotNumber
    /\ g.price > 100 /\ g.price <= 100100

\* the price taken for the profit per unit staked, price - 1
golf_row_ProfitOdds(g) ==
    [event_id |-> g.ev, golfer |-> Strip(g.name), bookmaker |-> g.book,
     odds |-> DFromRatio(g.price - 100, 100)]

golf_row(g) ==
    [event_id |-> g.ev, golfer |-> Strip(g.name), bookmaker |-> g.book,
     odds |-> DFromRatio(g.price, 100)]

golf_json_to_long(json) == MapRows(SelectRows(json, golf_keeps), golf_row)

\* the order of sort_values(["odds", "book_order"], ascending=[False, True])
BestFirst(r, q) ==
    \/ DLess(q.odds, r.odds)
    \/ r.odds = q.odds /\ golf_book_order(r.bookmaker) < golf_book_order(q.bookmaker)

\* the stable sort in that order
SortBestFirst(df) ==
    LET Insert(s, r) ==
            LET n == Cardinality({j \in 1..Len(s) : ~BestFirst(r, s[j])})
            IN  SubSeq(s, 1, n) \o <<r>> \o SubSeq(s, n + 1, Len(s))
        F[i \in 0..Len(df)] == IF i = 0 THEN <<>> ELSE Insert(F[i - 1], df[i])
    IN  F[Len(df)]

\* 1.0 / 0.0 of a column, and what sums and means make of it: inf or nan as
\* the pandas version has it, neither of which is below 1
NotFinite == [s |-> 0, m |-> <<>>, e |-> 1]

\* one step of the compensated sum of pandas' group_mean: y is the value less
\* the compensation so far, t the new sum
kahan_next(sumx, y, t) == [sumx |-> t, compensation |-> DSub(DSub(t, sumx), y)]

kahan_sum(sumx, y) == kahan_next(sumx, y, DAdd(sumx, y))

kahan_add(prev, x) == kahan_sum(prev.sumx, DSub(x, prev.compensation))

\* the compensated sum of the first i values of xs, in frame order
RECURSIVE kahan_upto(_, _)
kahan_upto(xs, i) ==
    IF i = 0 THEN [sumx |-> DZero, compensation |-> DZero]
    ELSE kahan_add(kahan_upto(xs, i - 1), xs[i])

\* the probability of the best price alone, the smallest of the group
group_mean_BestOnly(xs) ==
    xs[CHOOSE i \in 1..Len(xs) : \A j \in 1..Len(xs) : ~DLess(xs[j], xs[i])]

\* groupby(...)["imp_prob"].mean(): the sum of the group in frame order, with
\* the compensation of pandas' group_mean, divided by the count
group_mean(xs) ==
    IF \E i \in 1..Len(xs) : xs[i] = NotFinite THEN NotFinite
    ELSE DDiv(kahan_upto(xs, Len(xs)).sumx, DFromRatio(Len(xs), 1))

GolferKeys(df) == {<<df[i].event_id, df[i].golfer>> : i \in 1..Len(df)}

GolferOrder(key) ==
    key[1] * 10 + (CASE key[2] = "McIlroy" -> 1 [] key[2] = "Scheffler" -> 2 [] OTHER -> 3)

\* the first bookmaker of a group that is not null (groupby().first())
first_book(group) ==
    LET named == {i \in 1..Len(group) : group[i].bookmaker # NoTitle}
    IN  IF named = {} THEN NoTitle
        ELSE group[CHOOSE i \in named : \A j \in named : i <= j].bookmaker

\* the edge of the fair price over the best one
value_columns_FairOverBest(key, best_odds, best_book, consensus_prob, fair_odds) ==
    [event_id       |-> key[1],
     golfer         |-> key[2],
     best_odds      |-> best_odds,
     best_book      |-> best_book,
     consensus_prob |-> consensus_prob,
     fair_odds      |-> fair_odds,
     edge_pct       |-> DMul(DSub(DDiv(fair_odds, best_odds), One), Hundred),
     best_imp_prob  |-> DDiv(One, best_odds)]

\* the columns fair_odds, edge_pct and best_imp_prob of a merged row
value_columns(key, best_odds, best_book, consensus_prob, fair_odds) ==
    [event_id       |-> key[1],
     golfer         |-> key[2],
     best_odds      |-> best_odds,
     best_book      |-> best_book,
     consensus_prob |-> consensus_prob,
     fair_odds      |-> fair_odds,
     edge_pct       |-> DMul(DSub(DDiv(best_odds, fair_odds), One), Hundred),
     best_imp_prob  |-> DDiv(One, best_odds)]

\* the row of a golfer: best from the sorted group, stats from the group mean
value_row(key, group, consensus_prob) ==
    value_columns(key, group[1].odds, first_book(group), consensus_prob,
                  DDiv(One, consensus_prob))

\* df["imp_prob"] = 1.0 / df["odds"]
imp_prob(r) == IF r.odds = DZero THEN NotFinite ELSE DDiv(One, r.odds)

\* the merged row of the golfer key: best from the sorted frame, stats from
\* the frame in its own order
golfer_row(df, sorted, key) ==
    LET Mine(r) == r.event_id = key[1] /\ r.golfer = key[2]
    IN  value_row(key, SelectRows(sorted, Mine),
                  group_mean(MapRows(SelectRows(df, Mine), imp_prob)))

\* the test against 1 left out
sane_prob_Positive(r) ==
    r.consensus_prob # NotFinite /\ DLess(DZero, r.consensus_prob)

\* (consensus_prob > 0) & (consensus_prob < 1)
sane_prob(r) ==
    /\ r.consensus_prob # NotFinite
    /\ DLess(DZero, r.consensus_prob) /\ DLess(r.consensus_prob, One)

\* compute_value up to the columns fair_odds, edge_pct and best_imp_prob:
\* one row per (event, golfer) whose consensus probability is inside (0, 1)
value_rows(df) ==
    SelectRows(MapRows(SetToSeq(GolferKeys(df), GolferOrder),
                       LAMBDA key : golfer_row(df, SortBestFirst(df), key)),
               sane_prob)

EdgeOf(r) == r.edge_pct

\* edge_pct >= MIN_EDGE_PCT
plus_ev(r) == ~DLess(r.edge_pct, MIN_EDGE_PCT)

\* r put into s, sorted by edge_pct descending, after the rows of an edge not
\* below its own
insert_by_edge(s, r) ==
    LET n == Cardinality({j \in 1..Len(s) : ~DLess(s[j].edge_pct, r.edge_pct)})
    IN  SubSeq(s, 1, n) \o <<r>> \o SubSeq(s, n + 1, Len(s))

RECURSIVE edge_sorted(_, _)
edge_sorted(kept, i) ==
    IF i = 0 THEN <<>> ELSE insert_by_edge(edge_sorted(kept, i - 1), kept[i])

\* sort_values("edge_pct", ascending=False)
sort_by_edge(kept) == edge_sorted(kept, Len(kept))

\* head(MAX_ROWS)
head_rows(rows) == SubSeq(rows, 1, IF Len(rows) < MAX_ROWS THEN Len(rows) ELSE MAX_ROWS)

\* out[out["edge_pct"] >= MIN_EDGE_PCT].sort_values("edge_pct",
\* ascending=False).head(MAX_ROWS): one sort key, so rows of equal edge come
\* in an order that is not promised
compute_value(out, k) ==
    head_rows(RotateRuns(sort_by_edge(SelectRows(out, plus_ev)), EdgeOf, k))

(***************************************************************************)
(* Inputs of the model: the outcomes a snapshot is drawn from.  A snapshot *)
(* holds the outcomes of one market, and a bookmaker quotes an outcome of  *)
(* a game at one line once.                                                *)
(***************************************************************************)
Outcome(ev, book, mkey, name, point, price) ==
    [ev |-> ev, book |-> book, mkey |-> mkey, name |-> name, point |-> point,
     price |-> price, last |-> 0, commence |-> KickOff]

H2HOutcomes ==
    {Outcome(1, b, "h2h", n, NoPoint, p) :
        b \in {"Betfair", "Ladbrokes"},
        n \in {"Arsenal", "Chelsea", "Draw"},
        p \in {300, 450}}
    \cup {Outcome(1, "Betfair", "h2h", "Tie", NoPoint, 450)}

TotalsOutcomes ==
    {Outcome(1, b, "totals", n, lp[1], lp[2]) :
        b \in {"Betfair", "Ladbrokes"},
        n \in {"Over", "Under"},
        lp \in {<<25, 200>>, <<25, 300>>, <<35, 300>>}}
    \cup {Outcome(2, "Betfair", "totals", "Under", 25, 300),
          Outcome(1, NoTitle, "totals", "Over", 25, 300),
          Outcome(1, "Betfair", "totals", "Over", 25, 50000),
          Outcome(1, "Ladbrokes", "totals", "Under", 25, 102)}

SpreadsOutcomes ==
    {Outcome(1, b, "spreads", n, -10, p) :
        b \in {"Betfair", "Ladbrokes"},
        n \in {"Arsenal", "Chelsea"},
        p \in {200, 300}}
    \cup {Outcome(1, "Betfair", "spreads", n, 5, 300) : n \in {"Arsenal", "Chelsea"}}

Outcomes == H2HOutcomes \cup TotalsOutcomes \cup SpreadsOutcomes

SameQuote(o, q) ==
    /\ o.ev = q.ev /\ o.book = q.book /\ o.mkey = q.mkey
    /\ o.name = q.name /\ o.point = q.point

\* the JSON nests outcomes in a bookmaker and bookmakers in a game: the outcomes
\* of a game are adjacent, and within it those of a bookmaker
Nested(json, o) ==
    IF json = <<>> THEN TRUE
    ELSE LET last == json[Len(json)]
         IN  /\ o.ev # last.ev => \A i \in 1..Len(json) : json[i].ev # o.ev
             /\ o.ev = last.ev /\ o.book # last.book =>
                    \A i \in 1..Len(json) : ~(json[i].ev = o.ev /\ json[i].book = o.book)

\* the one market that the request of a script names (MARKETS, MARKET)
MarketIs(json, mkey) == \A i \in 1..Len(json) : json[i].mkey = mkey

(***************************************************************************)
(* The state machine: a snapshot is read, then one of the scripts runs on  *)
(* it.                                                                     *)
(***************************************************************************)
\* nothing has run: no output yet, no exception
\* no value returned
NoText == [attempt |-> 0, length |-> 0]

\* load_cache when there is no cache file, or one that is not JSON
EmptyCache == [events |-> [u \in {} |-> <<>>], fighters |-> {}]

\* the cache file not written by this run
NotWritten == [events |-> [u \in {} |-> <<>>], fighters |-> {"not written"}]

Idle ==
    /\ data = <<>>
    /\ pc = "fetch"
    /\ full_df = <<>>
    /\ arbs_1x2 = <<>>
    /\ arbs_totals = <<>>
    /\ arbs_spreads = <<>>
    /\ long_df = <<>>
    /\ arbs = <<>>
    /\ summary = <<>>
    /\ checker_df = <<>>
    /\ page = <<>>
    /\ all_df = <<>>
    /\ board = <<>>
    /\ raised = ""
    /\ golf_data = <<>>
    /\ golf_out = <<>>
    /\ golf_values = <<>>
    /\ uk_pc = "input"
    /\ uk_events = <<>>
    /\ uk_given = <<>>
    /\ uk_returned = <<>>
    /\ sg_pc = "idle"
    /\ sg_retries = 0
    /\ sg_i = 0
    /\ sg_seen = <<>>
    /\ sg_text = NoText
    /\ ufc_pc = "start"
    /\ ufc_cache = EmptyCache
    /\ ufc_loaded = EmptyCache
    /\ ufc_selected = <<>>
    /\ ufc_fights = <<>>
    /\ ufc_log = <<>>
    /\ ufc_file = NotWritten

Init == Idle /\ bankroll = BANKROLL

\* one more outcome of the response read
Fetch(o) ==
    /\ pc = "fetch"
    /\ Len(data) < MaxQuotes
    /\ \A i \in 1..Len(data) : data[i].mkey = o.mkey /\ ~SameQuote(data[i], o)
    /\ Nested(data, o)
    /\ data' = Append(data, o)
    /\ UNCHANGED <<pc, full_df, arbs_1x2, arbs_totals, arbs_spreads, long_df, arbs,
                   summary, checker_df, page, all_df, board, bankroll, raised>>
    /\ UNCHANGED <<golf_vars, util_vars>>

\* arb_multi.main
RunArbMulti(k) ==
    LET df == flatten_all(data)
    IN  /\ pc = "fetch"
        /\ pc' = "arb_multi"
        /\ full_df' = df
        /\ arbs_1x2' = build_1x2_arbs(df, k)
        /\ arbs_totals' = build_totals_arbs(df, k)
        /\ arbs_spreads' = build_spreads_arbs(df, k)
        /\ UNCHANGED <<data, long_df, arbs, summary, checker_df, page, all_df, board,
                       bankroll, raised>>
        /\ UNCHANGED <<golf_vars, util_vars>>

\* arb_goals_totals.main, whose request names the totals market
RunArbGoals(k) ==
    /\ pc = "fetch"
    /\ MarketIs(data, "totals")
    /\ pc' = "arb_goals_totals"
    /\ IF \E i \in 1..Len(data) : json_to_long_raises(data[i])
       THEN raised' = "ValueError" /\ UNCHANGED <<long_df, arbs>>
       ELSE LET df == price_sanity(drop_stale(json_to_long(data)))
            IN  long_df' = df /\ arbs' = best_pairs(df, k) /\ UNCHANGED raised
    /\ UNCHANGED <<data, full_df, arbs_1x2, arbs_totals, arbs_spreads, summary,
                   checker_df, page, all_df, board, bankroll>>
    /\ UNCHANGED <<golf_vars, util_vars>>

\* log_goals_best_lines.main, whose request names the totals market
RunBestLines ==
    /\ pc = "fetch"
    /\ MarketIs(data, "totals")
    /\ pc' = "log_goals_best_lines"
    /\ IF \E i \in 1..Len(data) : json_to_long_raises(data[i])
       THEN raised' = "ValueError" /\ UNCHANGED <<long_df, summary>>
       ELSE /\ long_df' = to_long(data)
            /\ summary' = summarize(to_long(data))
            /\ UNCHANGED raised
    /\ UNCHANGED <<data, full_df, arbs_1x2, arbs_totals, arbs_spreads, arbs,
                   checker_df, page, all_df, board, bankroll>>
    /\ UNCHANGED <<golf_vars, util_vars>>

\* generate_odds_checker.main: the three frames, then the call of
\* render_fixture_page for fixture ev on the rows the frames hold for it
RenderFixturePage(ev, k) ==
    LET Mine(r) == r.event_id = ev
        h == df_h2h(data, "soccer")
        t == df_totals(data)
        s == df_spreads(data, "soccer")
    IN  /\ pc = "fetch"
        /\ pc' = "generate_odds_checker"
        /\ IF \E i \in 1..Len(data) : df_h2h_raises(data[i], "soccer")
           THEN raised' = "ValueError" /\ UNCHANGED <<checker_df, page>>
           ELSE /\ checker_df' = [h2h |-> h, totals |-> t, spreads |-> s]
                /\ page' = render_fixture_page(SelectRows(h, Mine), SelectRows(t, Mine),
                                               SelectRows(s, Mine), "soccer", k)
                /\ UNCHANGED raised
        /\ UNCHANGED <<data, full_df, arbs_1x2, arbs_totals, arbs_spreads, long_df,
                       arbs, summary, all_df, board, bankroll>>
        /\ UNCHANGED <<golf_vars, util_vars>>

\* odds_board.main, whose requests name the h2h market
RunOddsBoard ==
    /\ pc = "fetch"
    /\ MarketIs(data, "h2h")
    /\ pc' = "odds_board"
    /\ IF \E i \in 1..Len(data) : fetch_book_raises(data[i])
       THEN raised' = "ValueError" /\ UNCHANGED <<all_df, board>>
       ELSE /\ all_df' = all_frames(data)
            /\ board' = best_price_summary(all_frames(data))
            /\ UNCHANGED raised
    /\ UNCHANGED <<data, full_df, arbs_1x2, arbs_totals, arbs_spreads, long_df, arbs,
                   summary, checker_df, page, bankroll>>
    /\ UNCHANGED <<golf_vars, util_vars>>

Next ==
    \/ \E o \in Outcomes : Fetch(o)
    \/ \E k \in 0..(MaxTie - 1) : RunArbMulti(k)
    \/ \E k \in 0..(MaxTie - 1) : RunArbGoals(k)
    \/ RunBestLines
    \/ \E k \in 0..(MaxTie - 1) : RenderFixturePage(1, k)
    \/ RunOddsBoard

Spec == Init /\ [][Next]_vars

(***************************************************************************)
(* golf_outrights_value: the outrights of one tournament, up to MaxGolf    *)
(* outcomes in which bookmakers quote golfers, then main.                  *)
(***************************************************************************)
MaxGolf == 2

GolfOutcome(ev, book, name, price) == [ev |-> ev, book |-> book, name |-> name, price |-> price]

GolfOutcomes ==
    {GolfOutcome(1, b, n, p) :
        b \in {"Betfair", "Ladbrokes"},
        n \in {"Scheffler", "McIlroy"},
        p \in {146, 151, 200, 4900}}
    \cup {GolfOutcome(1, "Betfair", "Scheffler", p) : p \in {101, 180, 100000}}

\* one more outcome of the outrights response read: a bookmaker quotes a
\* golfer once
FetchGolf(g) ==
    /\ pc = "fetch"
    /\ Len(golf_data) < MaxGolf
    /\ \A i \in 1..Len(golf_data) :
           ~(golf_data[i].book = g.book /\ golf_data[i].name = g.name)
    /\ golf_data' = Append(golf_data, g)
    /\ UNCHANGED <<pc, golf_out, golf_values, odds_vars, util_vars>>

\* golf_outrights_value.main
RunGolf ==
    LET df == golf_json_to_long(golf_data)
        out == IF df = <<>> THEN <<>> ELSE value_rows(df)
    IN  /\ pc = "fetch"
        /\ pc' = "golf_outrights_value"
        /\ golf_out' = out
        /\ \E k \in 0..(MaxTie - 1) : golf_values' = compute_value(golf_out', k)
        /\ UNCHANGED <<golf_data, odds_vars, util_vars>>

NextGolf ==
    \/ \E g \in GolfOutcomes : FetchGolf(g)
    \/ RunGolf

SpecGolf == Init /\ [][NextGolf]_vars

(***************************************************************************)
(* The configured bankroll: BANKROLL of arb_multi, as it ships or set to   *)
(* zero or to a negative amount, with nothing between the configuration    *)
(* and the stake computation.                                              *)
(***************************************************************************)
BankrollValues == {-100, 0, BANKROLL}

InitBank == Idle /\ bankroll \in BankrollValues

NextBank ==
    \/ \E o \in H2HOutcomes : Fetch(o)
    \/ \E k \in 0..(MaxTie - 1) : RunArbMulti(k)

SpecBank == InitBank /\ [][NextBank]_vars

(***************************************************************************)
(* The worked 1X2 scenarios: Home at 2.10 or 2.40, Draw at 3.40 or 3.60,   *)
(* Away at 4.20 or 4.50, each quoted by either of two bookmakers.          *)
(***************************************************************************)
ScenarioOutcomes ==
    {Outcome(1, b, "h2h", np[1], NoPoint, np[2]) :
        b \in {"Betfair", "Ladbrokes"},
        np \in {<<"Arsenal", 210>>, <<"Arsenal", 240>>, <<"Draw", 340>>,
                <<"Draw", 360>>, <<"Chelsea", 420>>, <<"Chelsea", 450>>}}

NextScenario ==
    \/ \E o \in ScenarioOutcomes : Fetch(o)
    \/ \E k \in 0..(MaxTie - 1) : RunArbMulti(k)

SpecScenario == Init /\ [][NextScenario]_vars

(***************************************************************************)
(* Ingestion of noisy provider data: a snapshot of up to MaxRaw outcomes   *)
(* of one market, among them outcomes with a price, a line, a label or a   *)
(* team name that is missing or not a number, a price at or beyond the     *)
(* sanity limits, and labels in other spellings.                           *)
(***************************************************************************)
MaxRaw == 2

RawH2H ==
    {Outcome(1, "Betfair", "h2h", "Arsenal", NoPoint, 300),
     Outcome(1, "Betfair", "h2h", "arsenal", NoPoint, 100),
     Outcome(1, "Betfair", "h2h", "Chelsea", NoPoint, 50),
     Outcome(1, "Betfair", "h2h", "Chelsea", NoPoint, NoPrice),
     Outcome(1, "Betfair", "h2h", "Chelsea", NoPoint, NotNumber),
     Outcome(1, "Betfair", "h2h", "", NoPoint, 300),
     Outcome(1, "Betfair", "h2h", "Tie", NoPoint, NotNumber),
     Outcome(1, "Ladbrokes", "h2h", "Draw", NoPoint, 100000),
     Outcome(1, "Ladbrokes", "h2h", "Draw", NoPoint, 100001),
     Outcome(1, "Ladbrokes", "h2h", " Draw ", NoPoint, 300),
     Outcome(3, "Betfair", "h2h", "Chelsea", NoPoint, 300),
     Outcome(3, "Betfair", "h2h", "", NoPoint, 300),
     Outcome(4, "Betfair", "h2h", "Draw", NoPoint, 300),
     Outcome(5, "Betfair", "h2h", "Arsenal", NoPoint, 300)}

RawTotals ==
    {Outcome(1, "Betfair", "totals", "Over", 25, 200),
     Outcome(1, "Betfair", "totals", "Under", 25, 300),
     Outcome(1, "Betfair", "totals", "over", 25, 100),
     Outcome(1, "Betfair", "totals", "Over 2.5", 25, 200),
     Outcome(1, "Betfair", "totals", "Under", NoPoint, 200),
     Outcome(1, "Betfair", "totals", "Under", NotNumber, 200),
     Outcome(1, "Betfair", "totals", "Over", 25, NoPrice),
     Outcome(1, "Betfair", "totals", "Over", 25, NotNumber),
     Outcome(1, "Ladbrokes", "totals", "", 25, 200),
     Outcome(1, "Ladbrokes", "totals", "Goals", 25, 200),
     Outcome(1, "Ladbrokes", "totals", "Under", 25, 100001),
     Outcome(3, "Betfair", "totals", "Over", 25, 200)}

RawSpreads ==
    {Outcome(1, "Betfair", "spreads", "Arsenal", -10, 200),
     Outcome(1, "Betfair", "spreads", "Chelsea", 5, 300),
     Outcome(1, "Betfair", "spreads", "chelsea", 10, 300),
     Outcome(1, "Betfair", "spreads", "Arsenal", NoPoint, 200),
     Outcome(1, "Betfair", "spreads", "Arsenal", NotNumber, 200),
     Outcome(1, "Betfair", "spreads", "Arsenal", -10, NotNumber),
     Outcome(1, "Betfair", "spreads", "Arsenal", -10, NoPrice),
     Outcome(1, "Ladbrokes", "spreads", "Draw", -10, 200),
     Outcome(1, "Ladbrokes", "spreads", "Chelsea", -10, 100),
     Outcome(1, "Ladbrokes", "spreads", "Chelsea", -10, 300),
     Outcome(1, "Ladbrokes", "spreads", "Arsenal", 5, 300),
     Outcome(3, "Betfair", "spreads", "Chelsea", -10, 200),
     Outcome(3, "Betfair", "spreads", "", -10, 200)}

RawOutcomes == RawH2H \cup RawTotals \cup RawSpreads

\* one more outcome of the noisy response read
FetchRaw(o) ==
    /\ pc = "fetch"
    /\ Len(data) < MaxRaw
    /\ \A i \in 1..Len(data) : data[i].mkey = o.mkey /\ ~SameQuote(data[i], o)
    /\ Nested(data, o)
    /\ data' = Append(data, o)
    /\ UNCHANGED <<pc, full_df, arbs_1x2, arbs_totals, arbs_spreads, long_df, arbs,
                   summary, checker_df, page, all_df, board, bankroll, raised>>
    /\ UNCHANGED <<golf_vars, util_vars>>

NextIngest ==
    \/ \E o \in RawOutcomes : FetchRaw(o)
    \/ \E k \in 0..(MaxTie - 1) : RunArbMulti(k)
    \/ \E k \in 0..(MaxTie - 1) : RunArbGoals(k)
    \/ RunBestLines
    \/ \E ev \in DOMAIN Games, k \in 0..(MaxTie - 1) : RenderFixturePage(ev, k)
    \/ RunOddsBoard

SpecIngest == Init /\ [][NextIngest]_vars


(***************************************************************************)
(* What the scripts report, for the properties below.                      *)
(***************************************************************************)
MarketFrame(mkey) == SelectRows(full_df, LAMBDA r : r.market = mkey)

Sides1x2 == {"Home", "Draw", "Away"}
SidesTotals == {"Over", "Under"}
SidesSpreads == {"Home", "Away"}

\* P(opp, frame, required) of every opportunity reported, frame being the
\* quotes its builder read
AllReported(P(_, _, _)) ==
    /\ \A i \in 1..Len(arbs_1x2) : P(arbs_1x2[i], MarketFrame("h2h"), Sides1x2)
    /\ \A i \in 1..Len(arbs_totals) : P(arbs_totals[i], MarketFrame("totals"), SidesTotals)
    /\ \A i \in 1..Len(arbs_spreads) : P(arbs_spreads[i], MarketFrame("spreads"), SidesSpreads)
    /\ \A i \in 1..Len(arbs) : P(arbs[i], long_df, SidesTotals)

SomeReported(P(_, _, _)) ==
    \/ \E i \in 1..Len(arbs_1x2) : P(arbs_1x2[i], MarketFrame("h2h"), Sides1x2)
    \/ \E i \in 1..Len(arbs_totals) : P(arbs_totals[i], MarketFrame("totals"), SidesTotals)
    \/ \E i \in 1..Len(arbs_spreads) : P(arbs_spreads[i], MarketFrame("spreads"), SidesSpreads)
    \/ \E i \in 1..Len(arbs) : P(arbs[i], long_df, SidesTotals)

\* the prices quoted for a side of the group (ev, line) in a frame
QuotedOdds(frame, ev, line, side) ==
    {frame[i].odds : i \in {j \in 1..Len(frame) :
        frame[j].event_id = ev /\ frame[j].line = line /\ frame[j].side = side}}

SetMax(S) == CHOOSE x \in S : \A y \in S : y <= x

\* the groups (ev, line) of a frame
GroupsOf(frame) == {<<frame[i].event_id, frame[i].line>> : i \in 1..Len(frame)}

\* sum of 1 / price < 1 over two or three prices in hundredths, in integers
BelowOne(odds) ==
    LET S == DOMAIN odds
    IN  IF Cardinality(S) = 2
        THEN LET a == CHOOSE s \in S : TRUE
                 b == CHOOSE s \in S : s # a
             IN  100 * (odds[a] + odds[b]) < odds[a] * odds[b]
        ELSE LET a == CHOOSE s \in S : TRUE
                 b == CHOOSE s \in S : s # a
                 c == CHOOSE s \in S : s # a /\ s # b
             IN  100 * (odds[a] * odds[b] + odds[a] * odds[c] + odds[b] * odds[c])
                    < odds[a] * odds[b] * odds[c]

\* an opportunity is reported for the group in one of the four outputs
ReportedAt(opps, ev, line) == \E i \in 1..Len(opps) : opps[i].event_id = ev /\ opps[i].line = line

\* the best prices of a complete group of a frame
BestOdds(frame, key, required) ==
    [s \in required |-> SetMax(QuotedOdds(frame, key[1], key[2], s))]

CompleteAt(frame, key, required) ==
    \A s \in required : QuotedOdds(frame, key[1], key[2], s) # {}

\* no opportunity is reported for a complete group whose best prices do not
\* sum below one
NoneAtOrAboveOne(opps, frame, required) ==
    \A key \in GroupsOf(frame) :
        CompleteAt(frame, key, required) /\ ~BelowOne(BestOdds(frame, key, required))
            => ~ReportedAt(opps, key[1], key[2])

C1_ExactlyOne ==
    /\ pc = "arb_goals_totals"
    /\ arbs = <<>>
    /\ \E key \in GroupsOf(long_df) :
          /\ CompleteAt(long_df, key, SidesTotals)
          /\ BestOdds(long_df, key, SidesTotals) = [s \in SidesTotals |-> 200]

SumOver(f) ==
    LET F[T \in SUBSET DOMAIN f] ==
            IF T = {} THEN 0
            ELSE LET s == CHOOSE x \in T : TRUE IN f[s] + F[T \ {s}]
    IN  F[DOMAIN f]

\* sum of 1 / price over the reported prices
SumImplied(odds) ==
    LET F[T \in SUBSET DOMAIN odds] ==
            IF T = {} THEN FInt(0)
            ELSE LET s == CHOOSE x \in T : TRUE IN FAdd(Frac(100, odds[s]), F[T \ {s}])
    IN  F[DOMAIN odds]

\* (B / price) / sum_implied of a reported opportunity, in pence
ExactStake(opp, s) ==
    FDiv(Frac(100 * 100 * BANKROLL, opp.odds[s]), SumImplied(opp.odds))

\* the reported stake is the exact one rounded to the penny
WithinHalfPenny(opp, s) ==
    LET diff == FSub(FInt(opp.stake[s]), ExactStake(opp, s))
    IN  2 * Abs(diff.n) <= diff.d

\* the statement of C2 as written: the reported stakes (pence) sum to B and the
\* payouts stake * price (pence times hundredths) are equal
C2_ExactSplit ==
    AllReported(LAMBDA opp, frame, required :
        /\ SumOver(opp.stake) = 100 * BANKROLL
        /\ \A s, u \in DOMAIN opp.stake :
              opp.stake[s] * opp.odds[s] = opp.stake[u] * opp.odds[u])

(***************************************************************************)
(* C2: every reported stake is (B / price) / sum_implied rounded to two    *)
(* decimals, so that the reported stakes of N sides sum to B within        *)
(* N * 0.005 and two payouts stake * price differ by at most 0.005 times   *)
(* the sum of their two prices.                                            *)
(***************************************************************************)
C2_RoundedSplit ==
    AllReported(LAMBDA opp, frame, required :
        /\ DOMAIN opp.stake = required
        /\ \A s \in required : WithinHalfPenny(opp, s)
        /\ 2 * Abs(SumOver(opp.stake) - 100 * BANKROLL) <= Cardinality(required)
        /\ \A s, u \in required :
              2 * Abs(opp.stake[s] * opp.odds[s] - opp.stake[u] * opp.odds[u])
                  <= opp.odds[s] + opp.odds[u])

\* an opportunity is reported whose rounded stakes do not sum to B
C2_Witness ==
    SomeReported(LAMBDA opp, frame, required : SumOver(opp.stake) # 100 * BANKROLL)

AllSummarized(P(_, _)) == \A i \in 1..Len(summary) : P(summary[i], long_df)

\* the h2h prices odds_board is given for an outcome label of an event
BoardOdds(ev, label) ==
    {data[i].price : i \in {j \in 1..Len(data) :
        /\ data[j].ev = ev /\ data[j].mkey = "h2h" /\ data[j].name = label
        /\ data[j].book \in Range(BOOKS)
        /\ data[j].price # NoPrice}}

LabelOf(ev, side) ==
    CASE side = "Home" -> Games[ev].home
      [] side = "Away" -> Games[ev].away
      [] OTHER -> "Draw"

(***************************************************************************)
(* C4: the best price reported for a side of a group is the largest price  *)
(* quoted for that side in the group: in the opportunities of              *)
(* _best_by_side and best_pairs, in the best-lines summary and in          *)
(* best_price_summary.                                                     *)
(***************************************************************************)
C4_BestIsMax ==
    /\ AllReported(LAMBDA opp, frame, required :
           \A s \in DOMAIN opp.odds :
               LET quoted == QuotedOdds(frame, opp.event_id, opp.line, s)
               IN  quoted # {} /\ opp.odds[s] = SetMax(quoted))
    /\ AllSummarized(LAMBDA row, frame :
           \A s \in DOMAIN row.odds :
               LET quoted == QuotedOdds(frame, row.event_id, row.line, s)
               IN  quoted # {} /\ row.odds[s] = SetMax(quoted))
    /\ \A ev \in DOMAIN board : \A side \in DOMAIN board[ev] :
           LET quoted == BoardOdds(ev, LabelOf(ev, side))
           IN  board[ev][side].odds = IF quoted = {} THEN NoPrice ELSE SetMax(quoted)

\* an opportunity is reported for a group in which a side has two prices
C4_Witness ==
    SomeReported(LAMBDA opp, frame, required :
        \E s \in DOMAIN opp.odds :
            Cardinality(QuotedOdds(frame, opp.event_id, opp.line, s)) >= 2)

\* the odds board shows the best of two prices of an outcome
C4_BoardReached ==
    \E ev \in DOMAIN board : \E side \in DOMAIN board[ev] :
        Cardinality(BoardOdds(ev, LabelOf(ev, side))) >= 2

\* the bookmaker the tie rule names: among the quotes of the side at its best
\* price, the lowest rank in the priority list (last when off the list), then the
\* earliest in the input
RuleBook(frame, ev, line, side) ==
    LET mine == {i \in 1..Len(frame) :
                    /\ frame[i].event_id = ev /\ frame[i].line = line
                    /\ frame[i].side = side}
        top  == {i \in mine : \A j \in mine : frame[j].odds <= frame[i].odds}
        w    == CHOOSE i \in top : \A j \in top :
                    \/ book_order(frame[i].book) < book_order(frame[j].book)
                    \/ book_order(frame[i].book) = book_order(frame[j].book) /\ i <= j
    IN  frame[w].book

\* the statement of C5: the bookmaker reported with a best price is the one
\* the tie rule names
C5_TieByPriority ==
    /\ AllReported(LAMBDA opp, frame, required :
           \A s \in DOMAIN opp.book :
               opp.book[s] = RuleBook(frame, opp.event_id, opp.line, s))
    /\ AllSummarized(LAMBDA row, frame :
           \A s \in DOMAIN row.book :
               row.book[s] = RuleBook(frame, row.event_id, row.line, s))

\* _best_by_side, its sort left stable, reports Ladbrokes for Over 2.5 at 3.00
\* where Betfair, ahead of it in the priority list, quotes the same price
C5_FailingInput ==
    /\ pc = "arb_multi"
    /\ data = <<Outcome(1, "Ladbrokes", "totals", "Over", 25, 300),
                Outcome(1, "Betfair", "totals", "Over", 25, 300),
                Outcome(1, "Betfair", "totals", "Under", 25, 300)>>
    /\ Len(arbs_totals) = 1
    /\ arbs_totals[1].book["Over"] = "Ladbrokes"

(***************************************************************************)
(* C7: an opportunity is only reported for a group that holds a quote for  *)
(* every required side (three for 1X2, two for totals and spreads), and    *)
(* it carries a price for each of them.                                    *)
(***************************************************************************)
C7_IncompleteNeverReported ==
    AllReported(LAMBDA opp, frame, required :
        /\ DOMAIN opp.odds = required
        /\ CompleteAt(frame, <<opp.event_id, opp.line>>, required))

\* build_1x2_arbs was handed Home at 4.50 and Away at 4.50 with no Draw quote,
\* and reported nothing
C7_Witness ==
    /\ pc = "arb_multi"
    /\ QuotedOdds(full_df, 1, NoPoint, "Home") = {450}
    /\ QuotedOdds(full_df, 1, NoPoint, "Away") = {450}
    /\ QuotedOdds(full_df, 1, NoPoint, "Draw") = {}
    /\ arbs_1x2 = <<>>

\* the lines of the totals page of fixture 1 and what df_totals holds for them
PageQuoted(line, s) ==
    LET frame == df_totals(data)
    IN  QuotedOdds(frame, 1, line, s)

\* the fixture page shows every side of every line that has a quote, at its
\* best price, and "No prices" for a side without one
C8_PageShowsPresentSides ==
    pc = "generate_odds_checker" =>
        /\ DOMAIN page.totals = {g[2] : g \in {h \in GroupsOf(df_totals(data)) : h[1] = 1}}
        /\ \A line \in DOMAIN page.totals : \A s \in SidesTotals :
               page.totals[line][s].best =
                   IF PageQuoted(line, s) = {} THEN NoPrice
                   ELSE SetMax(PageQuoted(line, s))

\* the statement of C8: a side that has a quote is in the best-price output at
\* its best price, whether or not its group is complete
C8_IncompleteStillReported ==
    /\ C8_PageShowsPresentSides
    /\ pc = "log_goals_best_lines" =>
           \A key \in GroupsOf(long_df) : \A s \in SidesTotals :
               QuotedOdds(long_df, key[1], key[2], s) # {} =>
                   \E i \in 1..Len(summary) :
                       /\ summary[i].event_id = key[1] /\ summary[i].line = key[2]
                       /\ summary[i].odds[s] = SetMax(QuotedOdds(long_df, key[1], key[2], s))

\* summarize was handed Over 2.5 at 2.00 alone and its summary is empty
C8_FailingInput ==
    /\ pc = "log_goals_best_lines"
    /\ data = <<Outcome(1, "Betfair", "totals", "Over", 25, 200)>>
    /\ summary = <<>>

\* the side the h2h label of an outcome names, "" when it names none
NamedSide(o) ==
    LET label == Lower(Strip(o.name))
    IN  IF label = Lower(Games[o.ev].home) THEN "Home"
        ELSE IF label = Lower(Games[o.ev].away) THEN "Away"
        ELSE IF label = "draw" THEN "Draw"
        ELSE ""

H2HNamed(ev, side) ==
    {i \in 1..Len(data) :
        data[i].mkey = "h2h" /\ data[i].ev = ev /\ NamedSide(data[i]) = side}

(***************************************************************************)
(* C9: an h2h outcome whose label is neither team nor the draw (such as    *)
(* "Tie") gives no row in flatten_all or df_h2h: every side holds exactly  *)
(* the quotes of the outcomes that name it, and without a Draw quote no    *)
(* 1X2 opportunity is reported.                                            *)
(***************************************************************************)
C9_UnclassifiableDropped ==
    /\ pc = "arb_multi" =>
          /\ \A i \in 1..Len(full_df) : full_df[i].side # ""
          /\ \A side \in Sides1x2 :
                Cardinality({i \in 1..Len(full_df) :
                    full_df[i].market = "h2h" /\ full_df[i].side = side})
                  = Cardinality({i \in 1..Len(data) :
                        data[i].mkey = "h2h" /\ NamedSide(data[i]) = side})
          /\ (\A ev \in DOMAIN Games : H2HNamed(ev, "Draw") = {}) => arbs_1x2 = <<>>
    /\ pc = "generate_odds_checker" =>
          DOMAIN page.h2h = {side \in Sides1x2 : H2HNamed(1, side) # {}}

\* flatten_all was handed both teams and a "Tie" outcome: two rows, no Draw
\* among them, nothing reported
C9_Witness ==
    /\ pc = "arb_multi"
    /\ Len(data) = 3
    /\ \E i \in 1..Len(data) : data[i].name = "Tie" /\ data[i].price = 450
    /\ H2HNamed(1, "Home") # {} /\ H2HNamed(1, "Away") # {}
    /\ \A i \in 1..Len(data) : data[i].name # "Tie" => data[i].price = 450
    /\ Len(full_df) = 2
    /\ arbs_1x2 = <<>>

(***************************************************************************)
(* C10: the prices of a reported totals or spreads opportunity, and of a   *)
(* row of the best-lines summary, are each quoted for that side by a quote *)
(* of the opportunity's event at the opportunity's line.                   *)
(***************************************************************************)
C10_SameEventSameLine ==
    /\ AllReported(LAMBDA opp, frame, required :
           \A s \in DOMAIN opp.odds :
               \E i \in 1..Len(frame) :
                   /\ frame[i].event_id = opp.event_id
                   /\ frame[i].line = opp.line
                   /\ frame[i].side = s
                   /\ frame[i].odds = opp.odds[s])
    /\ AllSummarized(LAMBDA row, frame :
           \A s \in DOMAIN row.odds :
               \E i \in 1..Len(frame) :
                   /\ frame[i].event_id = row.event_id
                   /\ frame[i].line = row.line
                   /\ frame[i].side = s
                   /\ frame[i].odds = row.odds[s])

\* a totals opportunity is reported at one line while the same event has a
\* quote at another line that is at least as good as the reported price
C10_Witness ==
    \E i \in 1..Len(arbs_totals) : \E j \in 1..Len(full_df) :
        /\ full_df[j].market = "totals"
        /\ full_df[j].event_id = arbs_totals[i].event_id
        /\ full_df[j].line # arbs_totals[i].line
        /\ full_df[j].odds >= arbs_totals[i].odds[full_df[j].side]

\* Over 2.5 at 3.00 and Under 3.5 at 3.00 alone: nothing is reported
C10_AcrossLines ==
    /\ pc = "arb_multi"
    /\ Len(full_df) = 2
    /\ \E i, j \in 1..2 :
          /\ full_df[i].side = "Over" /\ full_df[i].line = 25 /\ full_df[i].odds = 300
          /\ full_df[j].side = "Under" /\ full_df[j].line = 35 /\ full_df[j].odds = 300
          /\ full_df[i].event_id = full_df[j].event_id
    /\ arbs_totals = <<>>

(***************************************************************************)
(* Ingestion (SpecIngest)                                                  *)
(***************************************************************************)
\* the rows that survive ingestion, whichever script ran: the frame of
\* flatten_all, the long frame of json_to_long / to_long, the three frames of
\* generate_odds_checker and the concatenated frames of fetch_book
IngestedOdds ==
    {full_df[i].odds : i \in 1..Len(full_df)}
    \cup {long_df[i].odds : i \in 1..Len(long_df)}
    \cup (IF checker_df = <<>> THEN {}
          ELSE {checker_df.h2h[i].odds : i \in 1..Len(checker_df.h2h)}
               \cup {checker_df.totals[i].odds : i \in 1..Len(checker_df.totals)}
               \cup {checker_df.spreads[i].odds : i \in 1..Len(checker_df.spreads)})
    \cup {all_df[i].odds : i \in 1..Len(all_df)}

\* a price above 1.0 and at most the ceiling of 1000
SanePrice(p) == p > 100 /\ p <= ODDS_MAX

(***************************************************************************)
(* C11: every quote row that survives ingestion has a price above 1.0 and  *)
(* at most the sanity ceiling, so that its implied probability lies        *)
(* strictly between 0 and 1.  fetch_book filters no price: a quote at 1.00 *)
(* or 0.50 reaches the frame odds_board builds its board from.             *)
(***************************************************************************)
C11_SurvivorsSane == \A p \in IngestedOdds : SanePrice(p)

\* odds_board has read Betfair quoting Arsenal at 1.00 and kept the row
C11_FailingInput ==
    /\ pc = "odds_board" /\ raised = ""
    /\ \E i \in 1..Len(all_df) : all_df[i].outcome = "arsenal" /\ all_df[i].odds = 100

\* the other flatteners drop the prices outside the limits
C11_OthersFilter ==
    pc # "odds_board" => \A p \in IngestedOdds : SanePrice(p)

C11_OthersReached ==
    /\ pc \in {"arb_multi", "arb_goals_totals", "log_goals_best_lines",
               "generate_odds_checker"}
    /\ raised = ""
    /\ \E i \in 1..Len(data) : data[i].price \in {50, 100, 100001}
    /\ \E i \in 1..Len(data) : data[i].price = 100000
    /\ IngestedOdds # {}

\* a record of the snapshot that lacks a price, a label, a line its market
\* needs or a team name, or whose price or line is not a number
Malformed(o) ==
    \/ o.price \in {NoPrice, NotNumber}
    \/ o.name = ""
    \/ o.mkey \in {"totals", "spreads"} /\ o.point \in {NoPoint, NotNumber}
    \/ Games[o.ev].home = "" \/ Games[o.ev].away = ""

(***************************************************************************)
(* C12: whatever malformed records the snapshot holds, ingestion drops     *)
(* them and completes without raising.  json_to_long, to_long, df_h2h and  *)
(* fetch_book convert a price (and json_to_long / to_long a line) with     *)
(* float() outside any try, so a price or line that is not a number ends   *)
(* the run with a ValueError.                                              *)
(***************************************************************************)
C12_NeverRaises == raised = ""

\* arb_goals_totals has read an Over 2.5 quote whose price is not a number
C12_FailingInput ==
    /\ pc = "arb_goals_totals" /\ raised = "ValueError"
    /\ \E i \in 1..Len(data) :
           /\ data[i].name = "Over" /\ data[i].point = 25
           /\ data[i].price = NotNumber

\* flatten_all, df_totals and df_spreads convert inside try / except: on
\* them no snapshot raises
C12_GuardedNeverRaise == pc = "arb_multi" => raised = ""

C12_GuardedReached ==
    /\ pc = "arb_multi" /\ raised = ""
    /\ \E i \in 1..Len(data) : data[i].price = NotNumber \/ data[i].point = NotNumber
    /\ \E i \in 1..Len(data) : ~Malformed(data[i])
    /\ Len(full_df) = 1

(***************************************************************************)
(* Configuration (SpecBank)                                                *)
(***************************************************************************)
\* the stakes of the reported 1X2 opportunities, in pence
PlannedStakes ==
    {arbs_1x2[i].stake[s] : s \in {"Home", "Draw", "Away"}, i \in 1..Len(arbs_1x2)}

(***************************************************************************)
(* C13: a bankroll that is zero or negative is refused: no opportunity     *)
(* with a stake plan is produced for it.  build_1x2_arbs takes B =         *)
(* BANKROLL as it is and divides it among the sides, so a bankroll of 0    *)
(* gives a plan of three stakes of 0.00 and a negative one negative        *)
(* stakes, and no error is raised.                                         *)
(***************************************************************************)
C13_NoPlanWithoutBankroll == bankroll <= 0 => arbs_1x2 = <<>>

\* bankroll 0, Home 3.00, Draw 4.50, Away 3.00: an opportunity with stakes 0.00
C13_FailingInput ==
    /\ bankroll = 0 /\ pc = "arb_multi" /\ raised = ""
    /\ Len(arbs_1x2) = 1
    /\ PlannedStakes = {0}

\* bankroll -100: the stakes are negative
C13_NegativePlan ==
    /\ bankroll < 0 /\ pc = "arb_multi" /\ raised = ""
    /\ \E p \in PlannedStakes : p < 0

\* with the bankroll as shipped every stake of a plan is positive
C13_ShippedPlanPositive == bankroll > 0 => \A p \in PlannedStakes : p > 0

(***************************************************************************)
(* The worked scenarios (SpecScenario)                                     *)
(***************************************************************************)
\* the h2h group of event ev is complete with the best prices given
BestAre(ev, odds) ==
    /\ pc = "arb_multi"
    /\ CompleteAt(MarketFrame("h2h"), <<ev, NoPoint>>, Sides1x2)
    /\ BestOdds(MarketFrame("h2h"), <<ev, NoPoint>>, Sides1x2) = odds

ScenarioB == [Home |-> 240, Draw |-> 360, Away |-> 450]
ScenarioA == [Home |-> 210, Draw |-> 340, Away |-> 420]

(***************************************************************************)
(* C14: Scenario B.  A 1X2 group whose best prices are Home 2.40, Draw     *)
(* 3.60 and Away 4.50 is reported, with roi_pct 8.33 and, for the bankroll *)
(* of 100, the stakes Home 45.45, Draw 30.30 and Away 24.24.               *)
(***************************************************************************)
C14_ScenarioB ==
    BestAre(1, ScenarioB) =>
        /\ Len(arbs_1x2) = 1
        /\ arbs_1x2[1].event_id = 1
        /\ arbs_1x2[1].odds = ScenarioB
        /\ arbs_1x2[1].roi_pct = 833
        /\ arbs_1x2[1].stake = [Home |-> 4545, Draw |-> 3030, Away |-> 2424]

C14_Witness ==
    /\ BestAre(1, ScenarioB)
    /\ bankroll = 100
    /\ Len(arbs_1x2) = 1 /\ arbs_1x2[1].roi_pct = 833

\* each payout of the reported stakes is 109.08, within 0.01 of 109.09
C14_Payouts ==
    BestAre(1, ScenarioB) =>
        \A s \in Sides1x2 : arbs_1x2[1].stake[s] * arbs_1x2[1].odds[s] = 1090800

(***************************************************************************)
(* C15: Scenario A.  A 1X2 group whose best prices are Home 2.10, Draw     *)
(* 3.40 and Away 4.20 has an implied-probability sum of 120/119, about     *)
(* 1.0084 and not below 1, and no opportunity is reported for it.          *)
(***************************************************************************)
C15_ScenarioA ==
    BestAre(1, ScenarioA) =>
        /\ SumImplied(ScenarioA) = [n |-> 120, d |-> 119]
        /\ arbs_1x2 = <<>>

C15_Witness ==
    /\ BestAre(1, ScenarioA)
    /\ Len(full_df) >= 3
    /\ arbs_1x2 = <<>>

(***************************************************************************)
(* The consensus pricer (SpecGolf)                                         *)
(***************************************************************************)
\* the outcomes of the response that json_to_long keeps for the golfer of a
\* row of compute_value
QuotesOf(r) ==
    {i \in 1..Len(golf_data) :
        /\ golf_keeps(golf_data[i])
        /\ golf_data[i].ev = r.event_id /\ Strip(golf_data[i].name) = r.golfer}

\* the float of the price of the one quote of a golfer quoted once
OnlyPrice(r) == DFromRatio(golf_data[CHOOSE i \in QuotesOf(r) : TRUE].price, 100)

\* the weight of the last bit of the double x (one unit in the last place)
Ulp(x) == [s |-> 1, m |-> BShl(<<1>>, Mantissa - 1), e |-> x.e - (Mantissa - 1)]

DAbs(x) == [s |-> 1, m |-> x.m, e |-> x.e]

WithinUlp(y, x) == ~DLess(Ulp(x), DAbs(DSub(y, x)))

Listed(r) ==
    \E i \in 1..Len(golf_values) :
        golf_values[i].event_id = r.event_id /\ golf_values[i].golfer = r.golfer

(***************************************************************************)
(* C16, as stated: fair_price(implied_probability(x)) is x itself, so a    *)
(* golfer quoted by one bookmaker at x has fair price x and edge 0.        *)
(* In the binary64 arithmetic of compute_value 1.0 / (1.0 / 1.46) is       *)
(* 1.4600000000000002.                                                     *)
(***************************************************************************)
C16_RoundTripExact ==
    \A i \in 1..Len(golf_out) :
        Cardinality(QuotesOf(golf_out[i])) = 1 =>
            /\ golf_out[i].fair_odds = OnlyPrice(golf_out[i])
            /\ golf_out[i].edge_pct = DZero

(***************************************************************************)
(* C16, corrected: for a golfer quoted by one bookmaker at x the consensus *)
(* probability is the float 1.0 / x, the fair price is x or a double next  *)
(* to x (one unit in the last place away at most), the edge is therefore   *)
(* below MIN_EDGE_PCT in size and the golfer is not listed.                *)
(***************************************************************************)
C16_RoundTripWithinUlp ==
    \A i \in 1..Len(golf_out) :
        Cardinality(QuotesOf(golf_out[i])) = 1 =>
            /\ golf_out[i].best_odds = OnlyPrice(golf_out[i])
            /\ golf_out[i].consensus_prob = DDiv(One, OnlyPrice(golf_out[i]))
            /\ WithinUlp(golf_out[i].fair_odds, OnlyPrice(golf_out[i]))
            /\ DLess(DAbs(golf_out[i].edge_pct), MIN_EDGE_PCT)
            /\ ~Listed(golf_out[i])

\* a golfer quoted once at 1.46 whose fair price is not 1.46, with an edge
\* below zero
C16_Witness ==
    /\ pc = "golf_outrights_value"
    /\ \E i \in 1..Len(golf_out) :
           /\ Cardinality(QuotesOf(golf_out[i])) = 1
           /\ OnlyPrice(golf_out[i]) = DFromRatio(146, 100)
           /\ golf_out[i].fair_odds # OnlyPrice(golf_out[i])
           /\ DLess(golf_out[i].edge_pct, DZero)

\* a golfer quoted once at 2.00, where the round trip is exact
C16_ExactReached ==
    /\ pc = "golf_outrights_value"
    /\ \E i \in 1..Len(golf_out) :
           /\ Cardinality(QuotesOf(golf_out[i])) = 1
           /\ golf_out[i].fair_odds = DFromRatio(200, 100)
           /\ golf_out[i].edge_pct = DZero

(***************************************************************************)
(* Independence of the groups (Spec)                                       *)
(***************************************************************************)
\* the group (event, market type, line) of an outcome of the snapshot
GroupOfQuote(o) == <<o.ev, o.mkey, IF o.mkey = "h2h" THEN NoPoint ELSE o.point>>

\* the snapshot without the quotes of the other groups
OnlyGroup(g) ==
    LET Mine(o) == GroupOfQuote(o) = g
    IN  SelectRows(data, Mine)

\* the rows that an output holds for a group
RowsAt(out, g) ==
    LET Mine(r) == r.event_id = g[1] /\ r.line = g[3]
    IN  SelectRows(out, Mine)

\* an output without the names of the bookmakers
NoBooks(out) ==
    LET Row(r) == [x \in (DOMAIN r) \ {"book"} |-> r[x]]
    IN  MapRows(out, Row)

\* the builder of arb_multi for a market, and its output in the state
BuiltFor(mkey, df, k) ==
    IF mkey = "h2h" THEN build_1x2_arbs(df, k)
    ELSE IF mkey = "totals" THEN build_totals_arbs(df, k)
    ELSE build_spreads_arbs(df, k)

ReportedFor(mkey) ==
    IF mkey = "h2h" THEN arbs_1x2
    ELSE IF mkey = "totals" THEN arbs_totals
    ELSE arbs_spreads

\* every row of an output is the row of a group quoted in the snapshot
FromQuotedGroup(out, mkey) ==
    \A j \in 1..Len(out) :
        \E i \in 1..Len(data) :
            GroupOfQuote(data[i]) = <<out[j].event_id, mkey, out[j].line>>

(***************************************************************************)
(* C17: the best prices and the opportunity reported for a group (event,   *)
(* market type, line) are those computed from the quotes of the group      *)
(* alone, whatever quotes of other groups the snapshot holds, and every    *)
(* reported row is the row of one group: in build_1x2_arbs,                *)
(* build_totals_arbs and build_spreads_arbs (where the best bookmaker of   *)
(* tied best prices is one that the group alone can give), in best_pairs   *)
(* and in summarize.                                                       *)
(***************************************************************************)
C17_GroupsIndependent ==
    /\ pc = "arb_multi" =>
           /\ \A i \in 1..Len(data) :
                  LET g     == GroupOfQuote(data[i])
                      alone == flatten_all(OnlyGroup(g))
                      here  == RowsAt(ReportedFor(g[2]), g)
                  IN  /\ \A k \in 0..(MaxTie - 1) :
                             NoBooks(RowsAt(BuiltFor(g[2], alone, k), g)) = NoBooks(here)
                      /\ \E k \in 0..(MaxTie - 1) :
                             RowsAt(BuiltFor(g[2], alone, k), g) = here
           /\ \A mkey \in {"h2h", "totals", "spreads"} :
                  FromQuotedGroup(ReportedFor(mkey), mkey)
    /\ pc = "arb_goals_totals" /\ raised = "" =>
           /\ \A i \in 1..Len(data) :
                  LET g     == GroupOfQuote(data[i])
                      alone == price_sanity(drop_stale(json_to_long(OnlyGroup(g))))
                  IN  \A k \in 0..(MaxTie - 1) :
                          RowsAt(best_pairs(alone, k), g) = RowsAt(arbs, g)
           /\ FromQuotedGroup(arbs, "totals")
    /\ pc = "log_goals_best_lines" /\ raised = "" =>
           /\ \A i \in 1..Len(data) :
                  LET g == GroupOfQuote(data[i])
                  IN  RowsAt(summarize(to_long(OnlyGroup(g))), g) = RowsAt(summary, g)
           /\ FromQuotedGroup(summary, "totals")

\* arb_multi reports an opportunity for a totals group while the snapshot
\* holds a quote of another totals group
C17_Witness ==
    /\ pc = "arb_multi"
    /\ \E i, j \in 1..Len(data) :
           /\ data[i].mkey = "totals" /\ data[j].mkey = "totals"
           /\ GroupOfQuote(data[i]) # GroupOfQuote(data[j])
           /\ RowsAt(arbs_totals, GroupOfQuote(data[i])) # <<>>

\* the same in arb_goals_totals, the other group being that of another event
C17_OtherEventReached ==
    /\ pc = "arb_goals_totals"
    /\ \E i, j \in 1..Len(data) :
           /\ data[i].ev # data[j].ev
           /\ RowsAt(arbs, GroupOfQuote(data[i])) # <<>>

(***************************************************************************)
(* Classification of the labels (SpecIngest)                               *)
(***************************************************************************)
\* the side of an h2h label by the rule: the home team's name, then the away
\* team's, then the literal "draw", compared without case; "" for any other
RuleSide(o) ==
    LET label == Lower(Strip(o.name))
    IN  IF label = Lower(Games[o.ev].home) THEN "Home"
        ELSE IF label = Lower(Games[o.ev].away) THEN "Away"
        ELSE IF label = "draw" THEN "Draw"
        ELSE ""

\* the h2h rows of the frame of the script that ran
H2HFrame ==
    IF pc = "arb_multi"
    THEN LET IsH2H(r) == r.market = "h2h" IN SelectRows(full_df, IsH2H)
    ELSE IF pc = "generate_odds_checker" /\ checker_df # <<>> THEN checker_df.h2h
    ELSE <<>>

\* the outcomes of the snapshot that a row of an h2h frame can come from
SourcesOf(r) ==
    {i \in 1..Len(data) :
        data[i].mkey = "h2h" /\ data[i].ev = r.event_id /\ data[i].price = r.odds}

\* the names of the teams of a game differ, and neither is "draw" or missing
PlainNames(ev) ==
    /\ Games[ev].home # "" /\ Games[ev].away # ""
    /\ Lower(Games[ev].home) # Lower(Games[ev].away)
    /\ Lower(Games[ev].home) # "draw" /\ Lower(Games[ev].away) # "draw"

(***************************************************************************)
(* C18, as stated: every h2h row of flatten_all and of df_h2h carries the  *)
(* side that the rule gives the label of its outcome (home team's name,    *)
(* away team's name, "draw", in that order), and a label the rule does not *)
(* classify gives no row, whatever the names of the teams.  flatten_all    *)
(* tests "draw" first: for a home team named Draw the label Draw is the    *)
(* draw there and the home side in df_h2h.                                 *)
(***************************************************************************)
C18_H2HClassification ==
    \A j \in 1..Len(H2HFrame) :
        \E i \in SourcesOf(H2HFrame[j]) : RuleSide(data[i]) = H2HFrame[j].side

\* flatten_all has classified the label Draw of the game Draw v Chelsea as the
\* draw
C18_FailingInput ==
    /\ pc = "arb_multi"
    /\ \E i \in 1..Len(data) :
           /\ data[i].mkey = "h2h" /\ data[i].name = "Draw"
           /\ Lower(Games[data[i].ev].home) = "draw"
    /\ \E j \in 1..Len(H2HFrame) :
           /\ Lower(Games[H2HFrame[j].event_id].home) = "draw"
           /\ H2HFrame[j].side = "Draw"

\* with team names that differ from each other and from "draw" the two
\* flatteners follow the rule
C18_PlainNamesClassified ==
    \A j \in 1..Len(H2HFrame) :
        PlainNames(H2HFrame[j].event_id) =>
            \E i \in SourcesOf(H2HFrame[j]) : RuleSide(data[i]) = H2HFrame[j].side

C18_PlainNamesReached ==
    /\ pc \in {"arb_multi", "generate_odds_checker"}
    /\ \E j \in 1..Len(H2HFrame) :
           PlainNames(H2HFrame[j].event_id) /\ H2HFrame[j].side = "Draw"
    /\ \E j \in 1..Len(H2HFrame) :
           PlainNames(H2HFrame[j].event_id) /\ H2HFrame[j].side = "Home"

\* df_h2h follows the order of the rule for every pair of names
C18_CheckerFollowsOrder ==
    pc = "generate_odds_checker" =>
        \A j \in 1..Len(H2HFrame) :
            \E i \in SourcesOf(H2HFrame[j]) : RuleSide(data[i]) = H2HFrame[j].side

C18_CheckerReached ==
    /\ pc = "generate_odds_checker"
    /\ \E j \in 1..Len(H2HFrame) :
           /\ Lower(Games[H2HFrame[j].event_id].home) = "draw"
           /\ H2HFrame[j].side = "Home"

\* the side of a totals label by the rule: "over" in the label, else "under"
\* in the label, without case; "" for any other
RuleTotalsSide(o) ==
    LET label == Lower(Strip(o.name))
    IN  IF Contains(label, "over") THEN "Over"
        ELSE IF Contains(label, "under") THEN "Under"
        ELSE ""

\* the totals rows of the frame of the script that ran
TotalsFrame ==
    IF pc = "arb_multi"
    THEN LET IsTotals(r) == r.market = "totals" IN SelectRows(full_df, IsTotals)
    ELSE IF pc \in {"arb_goals_totals", "log_goals_best_lines"} THEN long_df
    ELSE IF pc = "generate_odds_checker" /\ checker_df # <<>> THEN checker_df.totals
    ELSE <<>>

\* a totals outcome of a named game with a line, and a price within the limits
SoundTotals(o) ==
    /\ o.mkey = "totals"
    /\ Games[o.ev].home # "" /\ Games[o.ev].away # ""
    /\ o.point # NoPoint /\ o.point # NotNumber
    /\ o.price # NoPrice /\ o.price # NotNumber
    /\ ODDS_MIN <= o.price /\ o.price <= ODDS_MAX

TotalsRowOf(o, side) ==
    \E j \in 1..Len(TotalsFrame) :
        /\ TotalsFrame[j].event_id = o.ev /\ TotalsFrame[j].line = o.point
        /\ TotalsFrame[j].odds = o.price /\ TotalsFrame[j].side = side

\* a script that flattens totals has run to its end
TotalsFlattened ==
    /\ pc \in {"arb_multi", "arb_goals_totals", "log_goals_best_lines",
               "generate_odds_checker"}
    /\ raised = ""

(***************************************************************************)
(* C19, as stated: in flatten_all, json_to_long, to_long and df_totals a   *)
(* totals label containing "over" gives an Over row and one containing     *)
(* "under" an Under row, the line of the row being the point of the quote, *)
(* and a quote without a line gives no row.  json_to_long, to_long and     *)
(* df_totals keep a label only when its title-cased form is "Over" or      *)
(* "Under": the label "Over 2.5" gives no row there.                       *)
(***************************************************************************)
C19_TotalsClassification ==
    TotalsFlattened =>
        /\ \A i \in 1..Len(data) :
               SoundTotals(data[i]) /\ RuleTotalsSide(data[i]) # "" =>
                   TotalsRowOf(data[i], RuleTotalsSide(data[i]))
        /\ \A j \in 1..Len(TotalsFrame) :
               /\ TotalsFrame[j].line \notin {NoPoint, NotNumber}
               /\ \E i \in 1..Len(data) :
                      /\ data[i].mkey = "totals"
                      /\ TotalsRowOf(data[i], RuleTotalsSide(data[i]))
                      /\ TotalsFrame[j].event_id = data[i].ev
                      /\ TotalsFrame[j].line = data[i].point
                      /\ TotalsFrame[j].odds = data[i].price
                      /\ TotalsFrame[j].side = RuleTotalsSide(data[i])

\* arb_goals_totals has read Betfair quoting "Over 2.5" at line 2.5 and price
\* 2.00, and its frame holds no row
C19_FailingInput ==
    /\ pc = "arb_goals_totals" /\ raised = ""
    /\ \E i \in 1..Len(data) : data[i].name = "Over 2.5" /\ SoundTotals(data[i])
    /\ long_df = <<>>

\* flatten_all follows the rule
C19_FlattenAllByContent ==
    pc = "arb_multi" => C19_TotalsClassification

C19_FlattenAllReached ==
    /\ pc = "arb_multi"
    /\ \E i \in 1..Len(data) :
           /\ data[i].name = "Over 2.5" /\ TotalsRowOf(data[i], "Over")
    /\ \E i \in 1..Len(data) : data[i].mkey = "totals" /\ data[i].point = NoPoint

\* the four flatteners agree on the labels that are Over or Under up to case,
\* and give no row to a quote without a line
C19_ExactLabels ==
    TotalsFlattened =>
        /\ \A i \in 1..Len(data) :
               SoundTotals(data[i]) /\ Title(data[i].name) \in {"Over", "Under"} =>
                   TotalsRowOf(data[i], Title(data[i].name))
        /\ \A j \in 1..Len(TotalsFrame) :
               TotalsFrame[j].line \notin {NoPoint, NotNumber}

C19_ExactLabelsReached ==
    /\ TotalsFlattened /\ pc # "arb_multi"
    /\ \E i \in 1..Len(data) : data[i].name = "Under" /\ TotalsRowOf(data[i], "Under")
    /\ \E i \in 1..Len(data) : data[i].mkey = "totals" /\ data[i].point = NoPoint

\* the spreads rows of the frame of the script that ran, and the lines that
\* the script allows
SpreadsFrame ==
    IF pc = "arb_multi"
    THEN LET IsSpreads(r) == r.market = "spreads" IN SelectRows(full_df, IsSpreads)
    ELSE IF pc = "generate_odds_checker" /\ checker_df # <<>> THEN checker_df.spreads
    ELSE <<>>

AllowedLines ==
    IF pc = "arb_multi" THEN POPULAR_SPREAD_LINES
    ELSE POPULAR_SPREAD_LINES_BY_SPORT("soccer")

\* the label of an outcome is the name of the team on a side, without case
LabelMatches(o, side) ==
    \/ side = "Home" /\ Games[o.ev].home # ""
                     /\ Lower(Strip(o.name)) = Lower(Games[o.ev].home)
    \/ side = "Away" /\ Games[o.ev].away # ""
                     /\ Lower(Strip(o.name)) = Lower(Games[o.ev].away)

\* a spreads quote of the snapshot for a game, at a line and a price
SpreadQuoted(ev, line, odds, side) ==
    \E i \in 1..Len(data) :
        /\ data[i].mkey = "spreads" /\ data[i].ev = ev
        /\ data[i].point = line /\ data[i].price = odds
        /\ LabelMatches(data[i], side)

(***************************************************************************)
(* C20: every spreads row of flatten_all and of df_spreads has a line, its *)
(* line is in the allow-list of the script, and it comes from a quote      *)
(* whose label is the name of the home or of the away team; no spreads     *)
(* opportunity of arb_multi and no spreads section of the fixture page is  *)
(* at a line outside the allow-list, and the prices of an opportunity are  *)
(* those of quotes at its line.                                            *)
(***************************************************************************)
C20_SpreadsKept ==
    pc \in {"arb_multi", "generate_odds_checker"} /\ raised = "" =>
        /\ \A j \in 1..Len(SpreadsFrame) :
               LET r == SpreadsFrame[j]
               IN  /\ r.line \notin {NoPoint, NotNumber}
                   /\ r.line \in AllowedLines
                   /\ r.side \in {"Home", "Away"}
                   /\ SpreadQuoted(r.event_id, r.line, r.odds, r.side)
        /\ \A j \in 1..Len(arbs_spreads) :
               /\ arbs_spreads[j].line \in AllowedLines
               /\ \A s \in DOMAIN arbs_spreads[j].odds :
                      SpreadQuoted(arbs_spreads[j].event_id, arbs_spreads[j].line,
                                   arbs_spreads[j].odds[s], s)
        /\ pc = "generate_odds_checker" => DOMAIN page.spreads \subseteq AllowedLines

\* a script has kept a spread quote of the snapshot while the snapshot holds
\* another at the line +0.5, outside the allow-list
C20_Witness ==
    /\ pc \in {"arb_multi", "generate_odds_checker"} /\ raised = ""
    /\ SpreadsFrame # <<>>
    /\ \E i \in 1..Len(data) :
           /\ data[i].mkey = "spreads" /\ data[i].point = 5
           /\ LabelMatches(data[i], "Away")
           /\ ODDS_MIN <= data[i].price /\ data[i].price <= ODDS_MAX

\* both sides quoted at 3.00 at the line +0.5: no row and no opportunity
C20_OutsidePairReached ==
    /\ pc = "arb_multi"
    /\ \E i, j \in 1..Len(data) :
           /\ data[i].mkey = "spreads" /\ data[i].point = 5 /\ data[i].price = 300
           /\ data[j].mkey = "spreads" /\ data[j].point = 5 /\ data[j].price = 300
           /\ LabelMatches(data[i], "Home") /\ LabelMatches(data[j], "Away")
    /\ SpreadsFrame = <<>> /\ arbs_spreads = <<>>

\* an opportunity at the line -1.0
C20_OpportunityReached ==
    /\ pc = "arb_multi"
    /\ \E j \in 1..Len(arbs_spreads) : arbs_spreads[j].line = -10

\* a spreads section of the fixture page
C20_PageReached ==
    /\ pc = "generate_odds_checker" /\ raised = ""
    /\ DOMAIN page.spreads # {}
    /\ \E i \in 1..Len(data) : data[i].mkey = "spreads" /\ data[i].point = 5

\* without an allow-list for the sport df_spreads keeps the line +0.5
C20_NoListKeepsLine ==
    \A i \in 1..Len(data) :
        (/\ data[i].mkey = "spreads" /\ data[i].point = 5
         /\ data[i].price = 300
         /\ LabelMatches(data[i], "Away")) =>
               \E j \in 1..Len(df_spreads(data, "tennis")) :
                   df_spreads(data, "tennis")[j].line = 5

(***************************************************************************)
(* Prices around the bounds of the arbitrage test: two-way pairs whose     *)
(* implied sum is 1 (1.04 with 26.00), just below 1 (1.01 with 101.50),    *)
(* below 1 by less than MIN_ROI_PCT (2.00 with 2.01) and by more (2.00     *)
(* with 2.10), and 1X2 triples whose return is MIN_ROI_PCT exactly.        *)
(***************************************************************************)
RoiTotals ==
    {Outcome(1, "Betfair", "totals", "Over", 25, p) : p \in {101, 104, 200}}
    \cup {Outcome(1, "Ladbrokes", "totals", "Under", 25, p) :
              p \in {201, 210, 2600, 10150}}
    \cup {Outcome(1, "Ladbrokes", "totals", "Over", 25, 200)}

RoiH2H ==
    {Outcome(1, "Betfair", "h2h", np[1], NoPoint, np[2]) :
        np \in {<<"Arsenal", 120>>, <<"Arsenal", 105>>, <<"Draw", 720>>,
                <<"Draw", 2800>>, <<"Chelsea", 5625>>, <<"Chelsea", 52500>>}}

NextRoi ==
    \/ \E o \in RoiTotals \cup RoiH2H : Fetch(o)
    \/ \E k \in 0..(MaxTie - 1) : RunArbMulti(k)
    \/ \E k \in 0..(MaxTie - 1) : RunArbGoals(k)

SpecRoi == Init /\ [][NextRoi]_vars

(***************************************************************************)
(* C21                                                                     *)
(***************************************************************************)
\* the best price of a side among the rows of the group of an opportunity
BestPriceIn(rows, opp, byLine, s) ==
    LET mine == {i \in 1..Len(rows) :
                    /\ rows[i].event_id = opp.event_id
                    /\ (byLine => rows[i].line = opp.line)
                    /\ rows[i].side = s}
    IN  IF mine = {} THEN 0
        ELSE CHOOSE p \in {rows[i].odds : i \in mine} :
                 \A i \in mine : rows[i].odds <= p

MarketRows(mkey) == SelectRows(full_df, LAMBDA r : r.market = mkey)

\* roi_pct is round((1 - sum_implied) * 100, 2) over the best prices of
\* exactly the required sides
RoiAsStated(opps, rows, required, byLine) ==
    \A i \in 1..Len(opps) :
        /\ DOMAIN opps[i].odds = required
        /\ \A s \in required : opps[i].odds[s] = BestPriceIn(rows, opps[i], byLine, s)
        /\ opps[i].roi_pct =
               Round2(FMul(FSub(FInt(1), SumImplied(opps[i].odds)), FInt(100)))

RoiAtLeast(opps, bound) == \A i \in 1..Len(opps) : opps[i].roi_pct >= bound

C21_NoProfitReached ==
    /\ pc = "arb_goals_totals"
    /\ \E i \in 1..Len(arbs) :
           arbs[i].odds["Over"] = 104 /\ arbs[i].odds["Under"] = 2600

\* build_1x2_arbs reports 1.05 / 28.00 / 525.00 at a roi_pct of 1.00
C21_ThreeWayReached ==
    /\ pc = "arb_multi"
    /\ \E i \in 1..Len(arbs_1x2) :
           arbs_1x2[i].roi_pct = 100 /\ arbs_1x2[i].odds["Home"] = 105

(***************************************************************************)
(* C22                                                                     *)
(***************************************************************************)
QuotedGroups(rows, byLine) ==
    {<<rows[i].event_id, IF byLine THEN rows[i].line ELSE NoPoint>> : i \in 1..Len(rows)}

GroupShape(key) == [event_id |-> key[1], line |-> key[2]]

SidesQuoted(rows, key, byLine) ==
    {rows[i].side : i \in {j \in 1..Len(rows) :
        rows[j].event_id = key[1] /\ (byLine => rows[j].line = key[2])}}

\* (1 - sum_implied) * 100 over the best prices of the required sides
ExactRoi(rows, key, required, byLine) ==
    FMul(FSub(FInt(1),
              SumImplied([s \in required |->
                             BestPriceIn(rows, GroupShape(key), byLine, s)])),
         FInt(100))

ReportedGroup(opps, key) ==
    \E i \in 1..Len(opps) : opps[i].event_id = key[1] /\ opps[i].line = key[2]

\* the complete groups at or above the bound are the reported ones
ThresholdFilters(opps, rows, required, byLine, Above(_)) ==
    \A key \in QuotedGroups(rows, byLine) :
        ReportedGroup(opps, key) <=>
            /\ SidesQuoted(rows, key, byLine) = required
            /\ Above(ExactRoi(rows, key, required, byLine))

AtThreshold(roi) == FLeq(FInt(MIN_ROI_PCT), roi)

AboveThreshold(roi) == FLess(FInt(MIN_ROI_PCT), roi)

\* C22 as stated: in every builder the reported opportunities are the
\* complete groups whose roi_pct is at or above the minimum of 1.0
C22_ThresholdEverywhere ==
    /\ pc = "arb_multi" =>
           /\ ThresholdFilters(arbs_1x2, MarketRows("h2h"), {"Home", "Draw", "Away"},
                               FALSE, AtThreshold)
           /\ ThresholdFilters(arbs_totals, MarketRows("totals"), {"Over", "Under"},
                               TRUE, AtThreshold)
           /\ ThresholdFilters(arbs_spreads, MarketRows("spreads"), {"Home", "Away"},
                               TRUE, AtThreshold)
    /\ (pc = "arb_goals_totals" /\ raised = "") =>
           ThresholdFilters(arbs, long_df, {"Over", "Under"}, TRUE, AtThreshold)

\* Betfair Over 2.5 at 2.00 and Ladbrokes Under 2.5 at 2.01, run through
\* arb_goals_totals: reported with a roi_pct of 0.25
C22_FailingInput ==
    /\ pc = "arb_goals_totals"
    /\ Len(data) = 2
    /\ \E i \in 1..2 : data[i].name = "Over" /\ data[i].price = 200
    /\ \E i \in 1..2 : data[i].name = "Under" /\ data[i].price = 201
    /\ Len(arbs) = 1 /\ arbs[1].roi_pct = 25

\* Home 1.20, Draw 7.20, Away 56.25, run through arb_multi: the return is
\* 1.0 exactly and the group is not reported
C22_BoundaryDropped ==
    /\ pc = "arb_multi"
    /\ {data[i].price : i \in 1..Len(data)} = {120, 720, 5625}
    /\ arbs_1x2 = <<>>

\* what the builders of arb_multi do: no opportunity below 1.00 is
\* reported, every complete group above 1.0 is, and a group at 1.0 exactly
\* is reported or not as the rounding of the binary64 sum falls
C22_ArbMultiThreshold ==
    pc = "arb_multi" =>
        /\ RoiAtLeast(arbs_1x2, 100) /\ RoiAtLeast(arbs_totals, 100)
        /\ RoiAtLeast(arbs_spreads, 100)
        /\ \A key \in QuotedGroups(MarketRows("h2h"), FALSE) :
               /\ (/\ SidesQuoted(MarketRows("h2h"), key, FALSE) = {"Home", "Draw", "Away"}
                   /\ AboveThreshold(ExactRoi(MarketRows("h2h"), key,
                                              {"Home", "Draw", "Away"}, FALSE)))
                      => ReportedGroup(arbs_1x2, key)
               /\ ReportedGroup(arbs_1x2, key) =>
                      AtThreshold(ExactRoi(MarketRows("h2h"), key,
                                           {"Home", "Draw", "Away"}, FALSE))
        /\ \A key \in QuotedGroups(MarketRows("totals"), TRUE) :
               /\ (/\ SidesQuoted(MarketRows("totals"), key, TRUE) = {"Over", "Under"}
                   /\ AboveThreshold(ExactRoi(MarketRows("totals"), key,
                                              {"Over", "Under"}, TRUE)))
                      => ReportedGroup(arbs_totals, key)
               /\ ReportedGroup(arbs_totals, key) =>
                      AtThreshold(ExactRoi(MarketRows("totals"), key,
                                           {"Over", "Under"}, TRUE))

\* arb_multi reports Over 2.00 with Under 2.10 (2.38) and leaves Over 2.00
\* with Under 2.01 (0.25) out
C22_ArbMultiReached ==
    /\ pc = "arb_multi"
    /\ \E i \in 1..Len(arbs_totals) : arbs_totals[i].roi_pct = 238

(***************************************************************************)
(* compute_value on its own: a frame of up to MaxGolf rows given to it     *)
(* directly, among them rows whose odds are zero, negative, below 1 or 1,  *)
(* which json_to_long would not have let through.                          *)
(***************************************************************************)
ValueRows ==
    {GolfOutcome(1, b, "Scheffler", p) :
        b \in {"Betfair", "Ladbrokes"}, p \in {-200, 0, 50, 100, 146, 200}}
    \cup {GolfOutcome(1, "Betfair", "McIlroy", 200)}

\* compute_value(df) for the frame whose rows are golf_data
ApplyComputeValue ==
    LET df == MapRows(golf_data, golf_row)
        out == IF df = <<>> THEN <<>> ELSE value_rows(df)
    IN  /\ pc = "fetch"
        /\ pc' = "compute_value"
        /\ golf_out' = out
        /\ \E k \in 0..(MaxTie - 1) : golf_values' = compute_value(golf_out', k)
        /\ UNCHANGED <<golf_data, odds_vars, util_vars>>

NextValue ==
    \/ \E g \in ValueRows : FetchGolf(g)
    \/ ApplyComputeValue

SpecValue == Init /\ [][NextValue]_vars

(***************************************************************************)
(* C24                                                                     *)
(***************************************************************************)
\* the rows of the frame of a golfer
FrameRowsOf(golfer) == {i \in 1..Len(golf_data) : golf_data[i].name = golfer}

ExactProb(price) == IF price < 0 THEN Frac(0 - 100, 0 - price) ELSE Frac(100, price)

RECURSIVE ExactProbSum(_)
ExactProbSum(rows) ==
    IF rows = {} THEN FInt(0)
    ELSE LET i == CHOOSE j \in rows : TRUE
         IN  FAdd(ExactProb(golf_data[i].price), ExactProbSum(rows \ {i}))

\* the mean of 1 / odds over the rows of a golfer is inside (0, 1)
ExactSane(golfer) ==
    /\ \A i \in FrameRowsOf(golfer) : golf_data[i].price # 0
    /\ FLess(FInt(0), ExactProbSum(FrameRowsOf(golfer)))
    /\ FLess(ExactProbSum(FrameRowsOf(golfer)), FInt(Cardinality(FrameRowsOf(golfer))))

InValueOutput(golfer) == \E i \in 1..Len(golf_out) : golf_out[i].golfer = golfer

\* C24: a golfer whose consensus probability is <= 0 or >= 1 has no row in
\* the output of compute_value, and every row that is there has a
\* consensus probability inside (0, 1) and a fair price 1 / consensus_prob
\* that is finite and above 1
C24_DegenerateExcluded ==
    pc = "compute_value" =>
        /\ \A i \in FrameRowsOf("Scheffler") \cup FrameRowsOf("McIlroy") :
               InValueOutput(golf_data[i].name) <=> ExactSane(golf_data[i].name)
        /\ \A i \in 1..Len(golf_out) :
               /\ golf_out[i].consensus_prob # NotFinite
               /\ DLess(DZero, golf_out[i].consensus_prob)
               /\ DLess(golf_out[i].consensus_prob, One)
               /\ golf_out[i].fair_odds = DDiv(One, golf_out[i].consensus_prob)
               /\ golf_out[i].fair_odds # NotFinite
               /\ DLess(One, golf_out[i].fair_odds)
        /\ \A i \in 1..Len(golf_values) : InValueOutput(golf_values[i].golfer)

\* Scheffler at 0.50 (probability 2) is left out and McIlroy at 2.00 is in
C24_Witness ==
    /\ pc = "compute_value"
    /\ \E i \in 1..Len(golf_data) :
           golf_data[i].name = "Scheffler" /\ golf_data[i].price = 50
    /\ ~InValueOutput("Scheffler")
    /\ InValueOutput("McIlroy")

\* Scheffler at 2.00 and at -2.00: a consensus probability of 0, left out
C24_ZeroReached ==
    /\ pc = "compute_value"
    /\ {golf_data[i].price : i \in FrameRowsOf("Scheffler")} = {-200, 200}
    /\ ~InValueOutput("Scheffler")

\* Scheffler at 0 and at 2.00: a probability that is not finite, left out
C24_DivisionByZeroReached ==
    /\ pc = "compute_value"
    /\ {golf_data[i].price : i \in FrameRowsOf("Scheffler")} = {0, 200}
    /\ ~InValueOutput("Scheffler")

(***************************************************************************)
(* C23                                                                     *)
(***************************************************************************)
RECURSIVE ProbSum(_)
ProbSum(quotes) ==
    IF quotes = {} THEN FInt(0)
    ELSE LET i == CHOOSE j \in quotes : TRUE
         IN  FAdd(Frac(100, golf_data[i].price), ProbSum(quotes \ {i}))

\* the double next to the mean of 1 / price over the quotes
MeanProb(quotes) ==
    DFromRatio(ProbSum(quotes).n, ProbSum(quotes).d * Cardinality(quotes))

\* the double next to the inverse of that mean
InverseOfMean(quotes) ==
    DFromRatio(ProbSum(quotes).d * Cardinality(quotes), ProbSum(quotes).n)

\* C23: for every golfer the consensus probability is the arithmetic mean
\* of 1 / price over all the quotes of the golfer and the fair price is its
\* inverse, each up to one unit in the last place of the double
C23_FairIsInverseOfMean ==
    \A i \in 1..Len(golf_out) :
        /\ QuotesOf(golf_out[i]) # {}
        /\ WithinUlp(golf_out[i].consensus_prob, MeanProb(QuotesOf(golf_out[i])))
        /\ golf_out[i].fair_odds = DDiv(One, golf_out[i].consensus_prob)
        /\ WithinUlp(golf_out[i].fair_odds, InverseOfMean(QuotesOf(golf_out[i])))

\* a golfer quoted at 1.46 and at 2.00: the fair price is 2 / (1/1.46 + 1/2)
\* = 1.6878..., below the best price 2.00 and above the other one
C23_Witness ==
    /\ pc = "golf_outrights_value"
    /\ \E i \in 1..Len(golf_out) :
           /\ {golf_data[j].price : j \in QuotesOf(golf_out[i])} = {146, 200}
           /\ golf_out[i].best_odds = DFromRatio(200, 100)
           /\ DLess(golf_out[i].fair_odds, DFromRatio(200, 100))
           /\ DLess(DFromRatio(146, 100), golf_out[i].fair_odds)

(***************************************************************************)
(* C29                                                                     *)
(***************************************************************************)
PricesOf(r) == {golf_data[j].price : j \in QuotesOf(r)}

EdgeNoise == [s |-> 1, m |-> One.m, e |-> One.e - 45]

C29_PositiveNoiseReached ==
    /\ pc = "golf_outrights_value"
    /\ \E i \in 1..Len(golf_out) :
           PricesOf(golf_out[i]) = {151} /\ DLess(DZero, golf_out[i].edge_pct)

\* a golfer quoted at 1.46 and at 49.00: listed, with an edge above zero
C29_ListedReached ==
    /\ pc = "golf_outrights_value"
    /\ \E i \in 1..Len(golf_values) :
           /\ PricesOf(golf_values[i]) = {146, 4900}
           /\ DLess(DZero, golf_values[i].edge_pct)

(***************************************************************************)
(* utils/filters.py.  An event of the Odds API is a dict; of its keys the  *)
(* model keeps "id" and "bookmakers", which may be missing.  A bookmaker   *)
(* is a dict whose "key" may be missing.                                   *)
(***************************************************************************)
MaxEvents == 2
MaxBooks == 2

NoKey == "None"

\* config/bookmakers.py is not part of the sources at hand: a collection of
\* bookmaker keys
UK_BOOKMAKERS == {"betfair_ex_uk", "ladbrokes_uk"}

\* event.get("bookmakers", [])
bookmakers_of(event) == IF event.has_bookmakers THEN event.bookmakers ELSE <<>>

\* every bookmaker of the event, UK or not
uk_books_All(event) == bookmakers_of(event)

\* [b for b in event.get("bookmakers", []) if b.get("key") in UK_BOOKMAKERS]
uk_books(event) == SelectSeq(bookmakers_of(event), LAMBDA b : b.key \in UK_BOOKMAKERS)

\* event_copy = dict(event); event_copy["bookmakers"] = uk_books
event_copy(event) == [event EXCEPT !.has_bookmakers = TRUE, !.bookmakers = uk_books(event)]

\* if not uk_books: continue
has_uk_books(event) == uk_books(event) # <<>>

filter_uk_books(events) == MapRows(SelectRows(events, has_uk_books), event_copy)

BookmakerKeys == {"betfair_ex_uk", "ladbrokes_uk", "draftkings", NoKey}

\* the lists of bookmakers of an event: a bookmaker is listed once
BookmakerLists ==
    {books \in UNION {[1..n -> {[key |-> k] : k \in BookmakerKeys}] : n \in 0..MaxBooks} :
        \A i, j \in 1..Len(books) : books[i] = books[j] => i = j}

\* one more event of the list that filter_uk_books will be given
ReceiveEvent(has, books) ==
    /\ uk_pc = "input"
    /\ Len(uk_events) < MaxEvents
    /\ has \/ books = <<>>
    /\ uk_events' = Append(uk_events,
           [id |-> Len(uk_events) + 1, has_bookmakers |-> has, bookmakers |-> books])
    /\ UNCHANGED <<uk_pc, uk_given, uk_returned>>
    /\ UNCHANGED <<pc, odds_vars, golf_vars, sg_vars, ufc_vars>>

\* filtered = filter_uk_books(events): the function builds new lists and
\* dicts and assigns to none of those it was given
CallFilterUkBooks ==
    /\ uk_pc = "input"
    /\ uk_pc' = "returned"
    /\ uk_given' = uk_events
    /\ uk_returned' = filter_uk_books(uk_events)
    /\ UNCHANGED uk_events
    /\ UNCHANGED <<pc, odds_vars, golf_vars, sg_vars, ufc_vars>>

NextFilter ==
    \/ \E has \in BOOLEAN, books \in BookmakerLists : ReceiveEvent(has, books)
    \/ CallFilterUkBooks

SpecFilter == Init /\ [][NextFilter]_vars

(***************************************************************************)
(* C26                                                                     *)
(***************************************************************************)
\* the positions of the UK bookmakers in the list of a given event
UkPositions(event) ==
    IF event.has_bookmakers
    THEN {i \in 1..Len(event.bookmakers) : event.bookmakers[i].key \in UK_BOOKMAKERS}
    ELSE {}

\* the ids of the given events that have a UK bookmaker
UkEventIds == {uk_given[i].id : i \in {j \in 1..Len(uk_given) : UkPositions(uk_given[j]) # {}}}

\* s is the list of the elements of t at the positions ps, in the order of t
IsSublistAt(s, t, ps) ==
    /\ Len(s) = Cardinality(ps)
    /\ \A i \in 1..Len(s) :
           \E p \in ps : /\ Cardinality({q \in ps : q <= p}) = i
                         /\ s[i] = t[p]

\* C26: filter_uk_books returns the given events that have a bookmaker whose
\* key is in UK_BOOKMAKERS, each once and in the order given, each with the
\* UK bookmakers of its list in their order and no others (so never an
\* empty list), and leaves the given list, its events and their bookmakers
\* lists as they were
C26_UkEventsOnly ==
    uk_pc = "returned" =>
        /\ {uk_returned[j].id : j \in 1..Len(uk_returned)} = UkEventIds
        /\ \A j, k \in 1..Len(uk_returned) :
               j < k => uk_returned[j].id < uk_returned[k].id
        /\ \A j \in 1..Len(uk_returned) :
               /\ uk_returned[j].bookmakers # <<>>
               /\ IsSublistAt(uk_returned[j].bookmakers,
                              uk_given[uk_returned[j].id].bookmakers,
                              UkPositions(uk_given[uk_returned[j].id]))
        /\ uk_events = uk_given

\* two events, the first with a UK bookmaker after another one, the second
\* with none: one event is returned, with the UK bookmaker alone
C26_Witness ==
    /\ uk_pc = "returned"
    /\ Len(uk_given) = 2
    /\ Len(uk_given[1].bookmakers) = 2
    /\ uk_given[1].bookmakers[1].key = "draftkings"
    /\ uk_given[1].bookmakers[2].key = "ladbrokes_uk"
    /\ uk_given[2].has_bookmakers /\ UkPositions(uk_given[2]) = {}
    /\ Len(uk_returned) = 1
    /\ uk_returned[1].bookmakers = <<[key |-> "ladbrokes_uk"]>>
    /\ uk_events[1].bookmakers = uk_given[1].bookmakers

\* an event without the key "bookmakers" is dropped
C26_MissingKeyReached ==
    /\ uk_pc = "returned"
    /\ \E i \in 1..Len(uk_given) : ~uk_given[i].has_bookmakers
    /\ Len(uk_returned) = 1

(***************************************************************************)
(* scripts/fetch_ufcstats_option_a.py: safe_get.  A pass of the loop calls *)
(* SESSION.get once; the call gives a response or raises.  Of a response   *)
(* the model keeps the status code and the length of the text; the text of *)
(* the response of pass i is told from the others by i.                    *)
(***************************************************************************)
MaxRetries == 5

RETRIES == 5

Raises == [raises |-> TRUE, status_code |-> 0, length |-> 0]

Response(status_code, length) ==
    [raises |-> FALSE, status_code |-> status_code, length |-> length]

\* what a call of SESSION.get can give: a page, a page of 1000 characters,
\* an empty text, an error page, an exception
Responses ==
    {Response(200, 1001), Response(200, 1000), Response(200, 0),
     Response(404, 1001), Response(503, 0), Raises}

\* a body that is long enough whatever the status
qualifies_AnyStatus(r) == ~r.raises /\ r.length > 0 /\ r.length > 1000

\* r.status_code == 200 and r.text and len(r.text) > 1000
qualifies(r) == ~r.raises /\ r.status_code = 200 /\ r.length > 0 /\ r.length > 1000

\* safe_get(url, retries): last_err = None, and the loop is entered
CallSafeGet(retries) ==
    /\ sg_pc = "idle"
    /\ sg_pc' = "loop"
    /\ sg_retries' = retries
    /\ sg_i' = 0
    /\ UNCHANGED <<sg_seen, sg_text>>
    /\ UNCHANGED <<pc, odds_vars, golf_vars, uk_vars, ufc_vars>>

\* one pass of for i in range(1, retries + 1): the GET, the sleep, and the
\* return of r.text or the warning and the back-off
SafeGetPass(r) ==
    /\ sg_pc = "loop"
    /\ sg_i < sg_retries
    /\ sg_i' = sg_i + 1
    /\ sg_seen' = Append(sg_seen, r)
    /\ IF qualifies(r)
       THEN sg_pc' = "returned" /\ sg_text' = [attempt |-> sg_i + 1, length |-> r.length]
       ELSE UNCHANGED <<sg_pc, sg_text>>
    /\ UNCHANGED sg_retries
    /\ UNCHANGED <<pc, odds_vars, golf_vars, uk_vars, ufc_vars>>

\* the loop is over: raise RuntimeError
SafeGetRaise ==
    /\ sg_pc = "loop"
    /\ ~(sg_i < sg_retries)
    /\ sg_pc' = "raised"
    /\ UNCHANGED <<sg_retries, sg_i, sg_seen, sg_text>>
    /\ UNCHANGED <<pc, odds_vars, golf_vars, uk_vars, ufc_vars>>

NextSafeGet ==
    \/ \E retries \in -1..MaxRetries : CallSafeGet(retries)
    \/ \E r \in Responses : SafeGetPass(r)
    \/ SafeGetRaise

\* a call of SESSION.get ends within its timeout and a sleep ends, so that
\* a pass that can be taken is taken
SpecSafeGet == Init /\ [][NextSafeGet]_vars /\ WF_vars(NextSafeGet)

(***************************************************************************)
(* C27                                                                     *)
(***************************************************************************)
Qualifying(r) == ~r.raises /\ r.status_code = 200 /\ r.length > 1000

SafeGetOutcome ==
    /\ Len(sg_seen) = sg_i
    /\ sg_i <= (IF sg_retries < 0 THEN 0 ELSE sg_retries)
    /\ \A j \in 1..(Len(sg_seen) - 1) : ~Qualifying(sg_seen[j])
    /\ sg_pc = "returned" =>
           /\ sg_seen # <<>> /\ Qualifying(sg_seen[Len(sg_seen)])
           /\ sg_text = [attempt |-> Len(sg_seen), length |-> sg_seen[Len(sg_seen)].length]
    /\ sg_pc = "raised" =>
           /\ sg_i = (IF sg_retries < 0 THEN 0 ELSE sg_retries)
           /\ \A j \in 1..Len(sg_seen) : ~Qualifying(sg_seen[j])
           /\ sg_text = NoText
    /\ sg_pc = "loop" => sg_text = NoText /\ \A j \in 1..Len(sg_seen) : ~Qualifying(sg_seen[j])

\* C27: safe_get(url, retries = n) makes at most n GETs; it ends, either
\* returning the text of the first response with status 200 and more than
\* 1000 characters or, when no response of the n is such (n = 0 included),
\* raising RuntimeError; it returns no other text
C27_BoundedRetries ==
    /\ []SafeGetOutcome
    /\ (sg_pc = "loop") ~> (sg_pc \in {"returned", "raised"})

\* the third GET of five is the first to give a page: its text is returned
\* after an error page and an exception
C27_Witness ==
    /\ sg_pc = "returned"
    /\ sg_retries = RETRIES
    /\ sg_i = 3
    /\ sg_seen[1] = Response(404, 1001) /\ sg_seen[2] = Raises
    /\ sg_text.attempt = 3

\* retries = 0: RuntimeError without a GET
C27_NoRetriesReached == sg_pc = "raised" /\ sg_retries = 0 /\ sg_seen = <<>>

\* five GETs, none good enough, a page of 1000 characters among them
C27_ExhaustedReached ==
    /\ sg_pc = "raised" /\ sg_retries = 5 /\ Len(sg_seen) = 5
    /\ \E j \in 1..5 : sg_seen[j] = Response(200, 1000)

(***************************************************************************)
(* scripts/fetch_ufcstats_option_a.py: main.  The cache holds the fight    *)
(* card of an event page under cache["events"][url] and the profile of a   *)
(* fighter page under cache["fighters"][url]; of a card the model keeps    *)
(* the fighter URLs of its fights, of a profile that it is there.  A call  *)
(* of safe_get returns a page or raises RuntimeError, which ends the run.  *)
(***************************************************************************)
MaxSelected == 2
MaxFights == 1

EventUrls == {"event-details/1", "event-details/2"}

FighterUrls == {"fighter-details/a", "fighter-details/b", "fighter-details/c"}

\* the fights a card can list: fighter_a_url and fighter_b_url
Fights ==
    {<<"fighter-details/a", "fighter-details/b">>,
     <<"fighter-details/a", "fighter-details/c">>}

\* parse_event_fight_card: the fights of an event page, top row first
Cards == UNION {[1..n -> Fights] : n \in 0..MaxFights}

\* parse_events_list of the two list pages: upcoming + completed[:3]; an
\* event can be in both
SelectedEvents == UNION {[1..n -> EventUrls] : n \in 0..MaxSelected}

CacheOf(events, fighters) == [events |-> events, fighters |-> fighters]

OneCard == <<<<"fighter-details/a", "fighter-details/b">>>>

\* load_cache: the file of an earlier run, or the empty cache
LoadedCaches ==
    {CacheOf(ev, fs) :
        ev \in {EmptyCache.events,
                [u \in {"event-details/1"} |-> OneCard],
                [u \in EventUrls |-> IF u = "event-details/1" THEN <<>> ELSE OneCard]},
        fs \in {{}, {"fighter-details/a"}, FighterUrls}}

\* the fighter pages of a card in the order main asks for them
RECURSIVE FighterPages(_)
FighterPages(card) ==
    IF card = <<>> THEN <<>>
    ELSE <<card[1][1], card[1][2]>> \o FighterPages(Tail(card))

\* the test left out: the page is fetched whatever the cache holds
event_cached_Never(cache, url) == FALSE

\* event_url in cache["events"]
event_cached(cache, url) == url \in DOMAIN cache.events

\* f["fighter_a_url"] in cache["fighters"]
fighter_cached(cache, url) == url \in cache.fighters

\* cache["events"][event_url] = {"fights": fights}
with_event(cache, url, card) ==
    [cache EXCEPT !.events =
        [u \in DOMAIN cache.events \cup {url} |->
            IF u = url THEN card ELSE cache.events[u]]]

\* cache["fighters"][url] = profile
with_fighter(cache, url) == [cache EXCEPT !.fighters = cache.fighters \cup {url}]

SafeGetCall(kind, url, returned) == [kind |-> kind, url |-> url, returned |-> returned]

\* cache = load_cache()
LoadCache(c) ==
    /\ ufc_pc = "start"
    /\ ufc_pc' = "lists"
    /\ ufc_cache' = c
    /\ ufc_loaded' = c
    /\ UNCHANGED <<ufc_selected, ufc_fights, ufc_log, ufc_file>>
    /\ UNCHANGED <<pc, odds_vars, golf_vars, uk_vars, sg_vars>>

\* the two list pages are fetched and parsed: selected_events
FetchLists(selected) ==
    /\ ufc_pc = "lists"
    /\ ufc_pc' = "events"
    /\ ufc_selected' = selected
    /\ UNCHANGED <<ufc_cache, ufc_loaded, ufc_fights, ufc_log, ufc_file>>
    /\ UNCHANGED <<pc, odds_vars, golf_vars, uk_vars, sg_vars>>

\* safe_get of a list page raises
FetchListsFails ==
    /\ ufc_pc = "lists"
    /\ ufc_pc' = "failed"
    /\ UNCHANGED <<ufc_cache, ufc_loaded, ufc_selected, ufc_fights, ufc_log, ufc_file>>
    /\ UNCHANGED <<pc, odds_vars, golf_vars, uk_vars, sg_vars>>

\* for e in selected_events, the card in the cache
EventFromCache ==
    /\ ufc_pc = "events"
    /\ ufc_selected # <<>>
    /\ event_cached(ufc_cache, Head(ufc_selected))
    /\ ufc_pc' = "fights"
    /\ ufc_fights' = FighterPages(ufc_cache.events[Head(ufc_selected)])
    /\ ufc_selected' = Tail(ufc_selected)
    /\ UNCHANGED <<ufc_cache, ufc_loaded, ufc_log, ufc_file>>
    /\ UNCHANGED <<pc, odds_vars, golf_vars, uk_vars, sg_vars>>

\* for e in selected_events, the card not in the cache: safe_get, parse,
\* cache["events"][event_url] = ...
EventFetched(card) ==
    /\ ufc_pc = "events"
    /\ ufc_selected # <<>>
    /\ ~event_cached(ufc_cache, Head(ufc_selected))
    /\ ufc_pc' = "fights"
    /\ ufc_log' = Append(ufc_log, SafeGetCall("event", Head(ufc_selected), TRUE))
    /\ ufc_cache' = with_event(ufc_cache, Head(ufc_selected), card)
    /\ ufc_fights' = FighterPages(card)
    /\ ufc_selected' = Tail(ufc_selected)
    /\ UNCHANGED <<ufc_loaded, ufc_file>>
    /\ UNCHANGED <<pc, odds_vars, golf_vars, uk_vars, sg_vars>>

\* safe_get of the event page raises
EventFetchFails ==
    /\ ufc_pc = "events"
    /\ ufc_selected # <<>>
    /\ ~event_cached(ufc_cache, Head(ufc_selected))
    /\ ufc_pc' = "failed"
    /\ ufc_log' = Append(ufc_log, SafeGetCall("event", Head(ufc_selected), FALSE))
    /\ UNCHANGED <<ufc_cache, ufc_loaded, ufc_selected, ufc_fights, ufc_file>>
    /\ UNCHANGED <<pc, odds_vars, golf_vars, uk_vars, sg_vars>>

\* the profile of fighter a or b of a fight, in the cache
FighterFromCache ==
    /\ ufc_pc = "fights"
    /\ ufc_fights # <<>>
    /\ fighter_cached(ufc_cache, Head(ufc_fights))
    /\ ufc_fights' = Tail(ufc_fights)
    /\ UNCHANGED <<ufc_pc, ufc_cache, ufc_loaded, ufc_selected, ufc_log, ufc_file>>
    /\ UNCHANGED <<pc, odds_vars, golf_vars, uk_vars, sg_vars>>

\* the profile not in the cache: safe_get, parse, cache["fighters"][url] = ...
FighterFetched ==
    /\ ufc_pc = "fights"
    /\ ufc_fights # <<>>
    /\ ~fighter_cached(ufc_cache, Head(ufc_fights))
    /\ ufc_log' = Append(ufc_log, SafeGetCall("fighter", Head(ufc_fights), TRUE))
    /\ ufc_cache' = with_fighter(ufc_cache, Head(ufc_fights))
    /\ ufc_fights' = Tail(ufc_fights)
    /\ UNCHANGED <<ufc_pc, ufc_loaded, ufc_selected, ufc_file>>
    /\ UNCHANGED <<pc, odds_vars, golf_vars, uk_vars, sg_vars>>

\* safe_get of the fighter page raises
FighterFetchFails ==
    /\ ufc_pc = "fights"
    /\ ufc_fights # <<>>
    /\ ~fighter_cached(ufc_cache, Head(ufc_fights))
    /\ ufc_pc' = "failed"
    /\ ufc_log' = Append(ufc_log, SafeGetCall("fighter", Head(ufc_fights), FALSE))
    /\ UNCHANGED <<ufc_cache, ufc_loaded, ufc_selected, ufc_fights, ufc_file>>
    /\ UNCHANGED <<pc, odds_vars, golf_vars, uk_vars, sg_vars>>

\* the fights of the event are done: out_events.append(event_obj)
EventDone ==
    /\ ufc_pc = "fights"
    /\ ufc_fights = <<>>
    /\ ufc_pc' = "events"
    /\ UNCHANGED <<ufc_cache, ufc_loaded, ufc_selected, ufc_fights, ufc_log, ufc_file>>
    /\ UNCHANGED <<pc, odds_vars, golf_vars, uk_vars, sg_vars>>

\* after the loop: events.json is written, then save_cache(cache)
SaveCache ==
    /\ ufc_pc = "events"
    /\ ufc_selected = <<>>
    /\ ufc_pc' = "done"
    /\ ufc_file' = ufc_cache
    /\ UNCHANGED <<ufc_cache, ufc_loaded, ufc_selected, ufc_fights, ufc_log>>
    /\ UNCHANGED <<pc, odds_vars, golf_vars, uk_vars, sg_vars>>

NextUfc ==
    \/ \E c \in LoadedCaches : LoadCache(c)
    \/ \E selected \in SelectedEvents : FetchLists(selected)
    \/ FetchListsFails
    \/ EventFromCache
    \/ \E card \in Cards : EventFetched(card)
    \/ EventFetchFails
    \/ FighterFromCache
    \/ FighterFetched
    \/ FighterFetchFails
    \/ EventDone
    \/ SaveCache

SpecUfc == Init /\ [][NextUfc]_vars

(***************************************************************************)
(* C30                                                                     *)
(***************************************************************************)
InCache(cache, call) ==
    IF call.kind = "event" THEN call.url \in DOMAIN cache.events
    ELSE call.url \in cache.fighters

FetcherRun ==
    /\ \A i, j \in 1..Len(ufc_log) :
           (ufc_log[i].kind = ufc_log[j].kind /\ ufc_log[i].url = ufc_log[j].url) => i = j
    /\ \A i \in 1..Len(ufc_log) : ~InCache(ufc_loaded, ufc_log[i])
    /\ \A i \in 1..Len(ufc_log) : ufc_log[i].returned => InCache(ufc_cache, ufc_log[i])
    /\ ufc_file # NotWritten =>
           /\ ufc_pc = "done" /\ ufc_selected = <<>> /\ ufc_fights = <<>>
           /\ ufc_file = ufc_cache
           /\ \A i \in 1..Len(ufc_log) : ufc_log[i].returned /\ InCache(ufc_file, ufc_log[i])
    /\ ufc_pc = "done" => ufc_file # NotWritten

\* C30: in a run of main an event page and a fighter page are asked of
\* safe_get at most once each, and never when the URL is in the cache that
\* was loaded; a page that safe_get returned is in the cache from then on;
\* the cache file is written once, after the last event, by a run in which
\* no safe_get raised, and holds every page fetched
C30_FetchOnceThenSave ==
    /\ []FetcherRun
    /\ [][ufc_file' # ufc_file =>
              (ufc_pc = "events" /\ ufc_selected = <<>> /\ ufc_file = NotWritten)]_vars

\* two pages fetched, an event that the loaded cache lacks and the one
\* fighter of its card that it lacks; the file is written at the end
C30_Witness ==
    /\ ufc_pc = "done"
    /\ ufc_loaded.fighters = {"fighter-details/a"}
    /\ ufc_loaded.events = EmptyCache.events
    /\ Len(ufc_log) = 2
    /\ ufc_log[1] = SafeGetCall("event", "event-details/1", TRUE)
    /\ ufc_log[2] = SafeGetCall("fighter", "fighter-details/b", TRUE)
    /\ ufc_file = ufc_cache

\* a run ended by RuntimeError after a page was fetched: no file is written
C30_AbortedReached ==
    /\ ufc_pc = "failed"
    /\ Len(ufc_log) = 2
    /\ ufc_log[1].returned /\ ~ufc_log[2].returned
    /\ ufc_file = NotWritten

\* an event listed twice: fetched the first time, in the cache the second
C30_ListedTwiceReached ==
    /\ ufc_pc = "events"
    /\ ufc_selected = <<"event-details/1">>
    /\ ufc_log # <<>>
    /\ ufc_log[1] = SafeGetCall("event", "event-details/1", TRUE)

(***************************************************************************)
(* Quotes of the totals market with times: a last_update that is fresh, on *)
(* the cutoff, past it, missing (the commence_time of the game stands in   *)
(* for it: ahead for game 1, five hours back for game 2, missing for game  *)
(* 3) or not a time.                                                       *)
(***************************************************************************)
InPlay == 300                \* commence_time of a game that began five hours ago

commence_time(ev) == IF ev = 1 THEN KickOff ELSE IF ev = 2 THEN InPlay ELSE NoTime

Timed(ev, book, name, price, last) ==
    [Outcome(ev, book, "totals", name, 25, price) EXCEPT
        !.last = last, !.commence = commence_time(ev)]

StaleOutcomes ==
    {Timed(1, "Betfair", "Over", 300, t) : t \in {0, 240, 241, NoTime, BadTime}}
    \cup {Timed(1, "Ladbrokes", "Under", 300, t) : t \in {0, 600}}
    \cup {Timed(1, "William Hill", "Over", 200, 0)}
    \cup {Timed(ev, "Betfair", n, 300, NoTime) : ev \in {2, 3}, n \in {"Over", "Under"}}

NextStale ==
    \/ \E o \in StaleOutcomes : Fetch(o)
    \/ \E k \in 0..(MaxTie - 1) : RunArbGoals(k)

SpecStale == Init /\ [][NextStale]_vars

(***************************************************************************)
(* C25: when the staleness cutoff is applied, a quote whose observed_at is *)
(* older than the cutoff is in no row that best_pairs sees and behind no   *)
(* best price that is reported.                                            *)
(***************************************************************************)
\* the quote was observed more than STALE_MINUTES ago
ObservedBeforeCutoff(o) == o.last \notin {NoTime, BadTime} /\ o.last > STALE_MINUTES

RowOfQuote(r, o) ==
    /\ r.event_id = o.ev /\ r.book = o.book /\ r.line = o.point
    /\ r.side = o.name /\ r.odds = o.price

C25_StaleNeverContributes ==
    (pc = "arb_goals_totals" /\ raised = "") =>
        /\ \A i \in 1..Len(long_df), j \in 1..Len(data) :
               RowOfQuote(long_df[i], data[j]) => ~ObservedBeforeCutoff(data[j])
        /\ \A i \in 1..Len(arbs) : \A s \in DOMAIN arbs[i].odds :
               \E j \in 1..Len(data) :
                   /\ ~ObservedBeforeCutoff(data[j])
                   /\ data[j].ev = arbs[i].event_id /\ data[j].point = arbs[i].line
                   /\ data[j].name = s /\ data[j].price = arbs[i].odds[s]
                   /\ data[j].book = arbs[i].book[s]

\* Betfair's Over at 3.00 was observed a minute before the cutoff: William
\* Hill's 2.00 is the best price reported
C25_Witness ==
    /\ pc = "arb_goals_totals"
    /\ \E j \in 1..Len(data) :
           /\ ObservedBeforeCutoff(data[j])
           /\ data[j].book = "Betfair" /\ data[j].price = 300
    /\ Len(arbs) = 1
    /\ arbs[1].odds["Over"] = 200
    /\ arbs[1].book["Over"] = "William Hill"

\* a quote observed on the cutoff itself is kept
C25_OnCutoffReached ==
    /\ pc = "arb_goals_totals"
    /\ \E j \in 1..Len(data) : data[j].last = STALE_MINUTES
    /\ Len(arbs) = 1
    /\ arbs[1].odds["Over"] = 300

\* a quote without a last_update goes with the commence_time of a game that
\* began before the cutoff
C25_CommenceStandsInReached ==
    /\ pc = "arb_goals_totals"
    /\ Len(data) = 2
    /\ \A j \in 1..Len(data) : data[j].ev = 2
    /\ long_df = <<>>

\* no row carries a time: the cutoff is not applied
C25_NoTimesReached ==
    /\ pc = "arb_goals_totals"
    /\ Len(data) = 2
    /\ \A j \in 1..Len(data) : data[j].ev = 3
    /\ Len(long_df) = 2

\* a last_update that is not a time is kept
C25_NotATimeReached ==
    /\ pc = "arb_goals_totals"
    /\ \E j \in 1..Len(data) : data[j].last = BadTime
    /\ Len(arbs) = 1
    /\ arbs[1].odds["Over"] = 300

(***************************************************************************)
(* Snapshots in which a bookmaker without a title quotes the best price:   *)
(* Over 2.5 at 3.00 next to Betfair's 2.00, and Scheffler at 2.00 next to  *)
(* Betfair's 1.46.                                                         *)
(***************************************************************************)
PairOutcomes ==
    {Outcome(1, NoTitle, "totals", "Over", 25, 300),
     Outcome(1, "Betfair", "totals", "Over", 25, 200),
     Outcome(1, "Betfair", "totals", "Under", 25, 300),
     Outcome(1, "Ladbrokes", "totals", "Over", 25, 300),
     Outcome(1, "Ladbrokes", "totals", "Under", 25, 300)}

PairGolf ==
    {GolfOutcome(1, NoTitle, "Scheffler", 200),
     GolfOutcome(1, "Betfair", "Scheffler", 146),
     GolfOutcome(1, "Ladbrokes", "Scheffler", 200)}

NextPair ==
    \/ \E o \in PairOutcomes : Fetch(o)
    \/ \E g \in PairGolf : FetchGolf(g)
    \/ \E k \in 0..(MaxTie - 1) : RunArbMulti(k)
    \/ \E k \in 0..(MaxTie - 1) : RunArbGoals(k)
    \/ RunBestLines
    \/ RunGolf

SpecPair == Init /\ [][NextPair]_vars

(***************************************************************************)
(* C28: the bookmaker reported alongside a best price quoted that price:   *)
(* the pair (bookmaker, price) of every best-price entry of _best_by_side, *)
(* best_pairs, summarize and compute_value is that of one quote row of the *)
(* same group and side, also when rows have no bookmaker title.            *)
(***************************************************************************)
PairInFrame(entry, frame) ==
    \A s \in DOMAIN entry.book :
        \E i \in 1..Len(frame) :
            /\ frame[i].event_id = entry.event_id /\ frame[i].line = entry.line
            /\ frame[i].side = s
            /\ frame[i].book = entry.book[s] /\ frame[i].odds = entry.odds[s]

C28_PairIsQuoted ==
    /\ AllReported(LAMBDA opp, frame, required : PairInFrame(opp, frame))
    /\ AllSummarized(PairInFrame)
    /\ \A i \in 1..Len(golf_values) :
           \E j \in 1..Len(golf_json_to_long(golf_data)) :
               LET r == golf_json_to_long(golf_data)[j]
               IN  /\ r.event_id = golf_values[i].event_id
                   /\ r.golfer = golf_values[i].golfer
                   /\ r.bookmaker = golf_values[i].best_book
                   /\ r.odds = golf_values[i].best_odds

\* best_pairs reports Over 2.5 at 3.00 with Betfair, whose Over is at 2.00
C28_FailingInput ==
    /\ pc = "arb_goals_totals"
    /\ data = <<Outcome(1, NoTitle, "totals", "Over", 25, 300),
                Outcome(1, "Betfair", "totals", "Over", 25, 200),
                Outcome(1, "Betfair", "totals", "Under", 25, 300)>>
    /\ Len(arbs) = 1
    /\ arbs[1].odds["Over"] = 300
    /\ arbs[1].book["Over"] = "Betfair"

\* summarize does the same
C28_SummarizeReached ==
    /\ pc = "log_goals_best_lines"
    /\ data = <<Outcome(1, NoTitle, "totals", "Over", 25, 300),
                Outcome(1, "Betfair", "totals", "Over", 25, 200),
                Outcome(1, "Betfair", "totals", "Under", 25, 300)>>
    /\ Len(summary) = 1
    /\ summary[1].odds["Over"] = 300
    /\ summary[1].book["Over"] = "Betfair"

\* compute_value reports Scheffler at 2.00 with Betfair, whose price is 1.46
C28_ComputeValueReached ==
    /\ pc = "golf_outrights_value"
    /\ golf_data = <<GolfOutcome(1, NoTitle, "Scheffler", 200),
                     GolfOutcome(1, "Betfair", "Scheffler", 146)>>
    /\ Len(golf_values) = 1
    /\ golf_values[1].best_odds = DFromRatio(200, 100)
    /\ golf_values[1].best_book = "Betfair"

\* _best_by_side reads the missing title as the empty string and reports it
\* with its price
C28_ArbMultiReached ==
    /\ pc = "arb_multi"
    /\ data = <<Outcome(1, NoTitle, "totals", "Over", 25, 300),
                Outcome(1, "Betfair", "totals", "Over", 25, 200),
                Outcome(1, "Betfair", "totals", "Under", 25, 300)>>
    /\ Len(arbs_totals) = 1
    /\ arbs_totals[1].odds["Over"] = 300
    /\ arbs_totals[1].book["Over"] = ""

====
